---- MODULE Spec2Model ----
(***************************************************************************)
(* A model of lxinit (usr/src/lib/brand/lx/lx_init/lxinit.c): the zone     *)
(* network bring-up that runs before the guest Linux init.                 *)
(*                                                                         *)
(* Text is a sequence of one-character strings, so that strstr, strcmp,    *)
(* atoi, inet_pton and the static-route scanner work on characters as the  *)
(* C code does.  A library or kernel call whose result the program cannot  *)
(* predict (socket, ioctl, ipadm_*, dhcp_*, write) draws its outcome from  *)
(* an "env" record chosen with \E.                                         *)
(***************************************************************************)
EXTENDS Integers, Sequences, FiniteSets, TLC

VARIABLES
    pc,            \* position of the single thread of main()
    fatal,         \* "" or the tag of the lxi_err() that stopped the run
    ipv6_enable,   \* the global boolean_t ipv6_enable
    addrnum,       \* the static int addrnum of lxi_iface_ip
    aobjnums,      \* the number N of every ".../addrN" name built, in order
    ifidx,         \* how many nwif entries zonecfg_getnwifent has returned
    fic,           \* first_ipv4_configured of the interface being configured
    ipv6,          \* the local ipv6 of the lxi_net_setup loop body
    no_zonecfg,    \* the local no_zonecfg of the loop body
    ipaddrs,       \* the address list split at ",": ipaddrs, then what
                   \* strtok_r has not yet taken from ipaddrs_copy
    do_addrconf,   \* the local do_addrconf of lxi_net_setup
    lifcnt,        \* kernel: logical interfaces added on the current link, per family
    gateway,       \* the local gateway of the loop body, or NULL
    v4ok,          \* IPv4 addresses brought up in the current interface pass
    v4lifs,        \* the logical interfaces (0: the base name) they are on
    last,          \* what the last step did
    rtmsgs,        \* routing messages written since the current caller began
    nprop,         \* lxi_normalize_protocols: property-set calls issued so far
    max_buf,       \* lxi_normalize_protocols: the local max_buf
    propcalls,     \* the ipadm_set_prop calls issued, in order
    propwarns,     \* how many of them failed and were warned about
    line,          \* lxi_net_static_route: the line handed to the callback
    lineno,        \* how many lines run_command has delivered
    i,             \* lxi_net_static_route: the scan index (0-based, as in C)
    cu,            \* lxi_net_static_route: the custr accumulation buffer
    gw,            \* lxi_net_static_route: gw, or NULL
    dst,           \* lxi_net_static_route: dst, or NULL
    pfx,           \* lxi_net_static_route: pfx
    gwcalls,       \* lxi_iface_gateway calls made for the current line
    addrconf_seen, \* lxi_net_setup: some address list so far names addrconf
    done           \* the calls of main() that have returned, in order

vars == <<pc, fatal, ipv6_enable, addrnum, aobjnums, ifidx, fic, ipv6,
          no_zonecfg, ipaddrs, do_addrconf, lifcnt, gateway, v4ok, v4lifs,
          last, rtmsgs, nprop, max_buf, propcalls, propwarns, line, lineno, i, cu, gw,
          dst, pfx, gwcalls, addrconf_seen, done>>

netvars == <<ipv6_enable, addrnum, aobjnums, ifidx, fic, ipv6, no_zonecfg,
             ipaddrs, do_addrconf, lifcnt, gateway, v4ok, v4lifs,
             addrconf_seen>>
normvars == <<nprop, max_buf, propcalls, propwarns>>
routevars == <<line, lineno, i, cu, gw, dst, pfx, gwcalls>>

----------------------------------------------------------------------------
(* Bounds of the model.                                                    *)

MaxIfaces == 2      \* nwif entries in the zone configuration
MaxTokens == 3      \* tokens in one interface's address list
MaxLines == 2       \* lines the static-route feed command prints
MaxVer == 4         \* largest component of a declared kernel version

----------------------------------------------------------------------------
(* Text.                                                                   *)

NULL == <<"NULL">>          \* the null pointer; no text holds this element

Digits == <<"0", "1", "2", "3", "4", "5", "6", "7", "8", "9">>

IsDigit(c) == \E k \in 1..Len(Digits) : Digits[k] = c

DigitVal(c) == (CHOOSE k \in 1..Len(Digits) : Digits[k] = c) - 1

HasChar(s, c) == \E k \in 1..Len(s) : s[k] = c

\* strstr(h, n) != NULL
strstr(h, n) ==
    \E k \in 1..(Len(h) - Len(n) + 1) : SubSeq(h, k, k + Len(n) - 1) = n

\* strcmp(a, b) == 0
strcmp0(a, b) == a = b

RECURSIVE DecValue(_)
DecValue(s) ==
    IF s = <<>> THEN 0
    ELSE 10 * DecValue(SubSeq(s, 1, Len(s) - 1)) + DigitVal(s[Len(s)])

RECURSIVE DigitPrefix(_)
DigitPrefix(s) ==
    IF s = <<>> \/ ~IsDigit(Head(s)) THEN <<>>
    ELSE <<Head(s)>> \o DigitPrefix(Tail(s))

\* atoi(3C): optional sign, then the longest run of digits; 0 when none.
atoi(s) ==
    IF s # <<>> /\ Head(s) = "-" THEN 0 - DecValue(DigitPrefix(Tail(s)))
    ELSE IF s # <<>> /\ Head(s) = "+" THEN DecValue(DigitPrefix(Tail(s)))
    ELSE DecValue(DigitPrefix(s))

ZeroAddr == <<0, 0, 0, 0>>

\* The scan of inet_pton's IPv4 branch: tmp holds the octets begun so far,
\* saw tells that the current octet has a digit.  <<>> stands for failure.
RECURSIVE inet_pton4(_, _, _, _)
inet_pton4(s, k, tmp, saw) ==
    IF k > Len(s) THEN (IF Len(tmp) = 4 THEN tmp ELSE <<>>)
    ELSE IF IsDigit(s[k])
    THEN IF saw
         THEN IF tmp[Len(tmp)] = 0
                 \/ 10 * tmp[Len(tmp)] + DigitVal(s[k]) > 255
              THEN <<>>
              ELSE inet_pton4(s, k + 1,
                       [tmp EXCEPT ![Len(tmp)] = 10 * @ + DigitVal(s[k])],
                       TRUE)
         ELSE IF Len(tmp) = 4 THEN <<>>
              ELSE inet_pton4(s, k + 1, Append(tmp, DigitVal(s[k])), TRUE)
    ELSE IF s[k] = "." /\ saw /\ Len(tmp) < 4
    THEN inet_pton4(s, k + 1, tmp, FALSE)
    ELSE <<>>

\* inet_pton(AF_INET, s, &addr): 1 and the four octets for a dotted quad,
\* else 0 with addr untouched (zero in a buffer that was zeroed).
inet_pton(s) ==
    LET a == inet_pton4(s, 1, <<>>, FALSE)
    IN  IF a # <<>> THEN [ret |-> 1, addr |-> a]
        ELSE [ret |-> 0, addr |-> ZeroAddr]

Pow2(n) == IF n = 0 THEN 1 ELSE IF n = 1 THEN 2 ELSE IF n = 2 THEN 4
           ELSE IF n = 3 THEN 8 ELSE IF n = 4 THEN 16 ELSE IF n = 5 THEN 32
           ELSE IF n = 6 THEN 64 ELSE IF n = 7 THEN 128 ELSE 256

\* plen2mask(prefixlen, AF_INET, mask): the prefix length arrives as a
\* uint_t, so a negative int is out of range like any value above 32.
plen2mask(prefixlen) ==
    LET bits(k) == IF prefixlen - 8 * (k - 1) >= 8 THEN 8
                   ELSE IF prefixlen - 8 * (k - 1) <= 0 THEN 0
                   ELSE prefixlen - 8 * (k - 1)
    IN  IF prefixlen < 0 \/ prefixlen > 32
        THEN [ret |-> -1, mask |-> ZeroAddr]
        ELSE [ret |-> 0, mask |-> [k \in 1..4 |-> 256 - Pow2(8 - bits(k))]]

----------------------------------------------------------------------------

(* Texts of the zone configuration.                                        *)

S_dhcp == <<"d", "h", "c", "p">>
S_addrconf == <<"a", "d", "d", "r", "c", "o", "n", "f">>
S_true == <<"t", "r", "u", "e">>
S_false == <<"f", "a", "l", "s", "e">>
S_yes == <<"y", "e", "s">>
S_v4 == <<"1", ".", "2", ".", "3", ".", "4">>
S_v6 == <<"f", "e", "8", "0", ":", ":", "1">>
S_lo4 == <<"1", "2", "7", ".", "0", ".", "0", ".", "1", "/", "8">>
S_gwA == <<"9", ".", "9", ".", "9", ".", "1">>
S_gwB == <<"9", ".", "9", ".", "9", ".", "2">>
S_gwBad == <<"g", "w">>

AF_INET == "AF_INET"
AF_INET6 == "AF_INET6"

\* The tokens an "ips" attribute is made of, and the lists it can hold.
Tokens == {S_dhcp, S_addrconf, S_v4, S_v6}

TokenLists == UNION {[1..n -> Tokens] : n \in 0..MaxTokens}

\* zone_nwif_allowed_address: empty, or the single address of the link.
AllowedAddresses == {<<>>, <<S_v4>>}

\* What zone_find_attr can deliver for "ipv6" and "primary": not found, or a value.
BoolAttrs == {NULL, S_true, S_false, S_yes}

DefRouters == {<<>>, S_gwA}

GatewayAttrs == {NULL, S_gwB, S_gwBad}

----------------------------------------------------------------------------
(* The functions of lxinit.c that the steps of main() call.                *)

NoEvent == [op |-> "", tok |-> <<>>, failed |-> "", af |-> "", ret |-> 0,
            lif |-> 0,
            newlif |-> FALSE, n |-> -1, warns |-> 0, badfd |-> FALSE,
            opened |-> 0, closed |-> 0]

\* SIOCLIFADDIF: the kernel names the next unused logical interface of the
\* link; cnt logical interfaces were added to it before.
SIOCLIFADDIF(cnt) == cnt + 1

\* A bug: only IPv6 addresses get a logical interface of their own.
NeedsNewLif_v6only(af, first_ipv4_configured) == af = AF_INET6

\* A bug: the address family is not looked at.
NeedsNewLif_flagonly(af, first_ipv4_configured) == first_ipv4_configured

\* "We need a new logical interface for every IP address we add, except
\* for the very first IPv4 address."
NeedsNewLif(af, first_ipv4_configured) ==
    af = AF_INET6 \/ first_ipv4_configured

\* lxi_getif: lif 0 stands for the unchanged name (the base interface).
lxi_getif(af, first_ipv4_configured, lifs, env) ==
    IF env = "socket"
    THEN [ret |-> -1, lif |-> 0, lifs |-> lifs, warns |-> 1, opened |-> 0,
          closed |-> 0, newlif |-> FALSE]
    ELSE IF NeedsNewLif(af, first_ipv4_configured)
    THEN IF env = "SIOCLIFADDIF"
         THEN [ret |-> -1, lif |-> 0, lifs |-> lifs, warns |-> 0,
               opened |-> 1, closed |-> 1, newlif |-> FALSE]
         ELSE [ret |-> 0, lif |-> SIOCLIFADDIF(lifs[af]),
               lifs |-> [lifs EXCEPT ![af] = SIOCLIFADDIF(lifs[af])],
               warns |-> 0, opened |-> 1, closed |-> 1, newlif |-> TRUE]
    ELSE [ret |-> 0, lif |-> 0, lifs |-> lifs, warns |-> 0, opened |-> 1,
          closed |-> 1, newlif |-> FALSE]

\* A bug: addrnum is advanced only once the address is up.
lxi_iface_ip_count_on_success(addr, first_ipv4_configured, num, lifs, env) ==
    LET af == IF ~HasChar(addr, ":") THEN AF_INET ELSE AF_INET6
        g == lxi_getif(af, first_ipv4_configured, lifs, env)
        base == [af |-> af, lif |-> g.lif, lifs |-> g.lifs,
                 opened |-> g.opened, closed |-> g.closed,
                 newlif |-> g.newlif, fic |-> first_ipv4_configured]
    IN  IF g.ret # 0
        THEN base @@ [ret |-> -1, named |-> FALSE, n |-> -1, num |-> num,
                      warns |-> g.warns + 1]
        ELSE IF env = "ipadm_create_addrobj"
        THEN base @@ [ret |-> -2, named |-> TRUE, n |-> num,
                      num |-> num, warns |-> 1]
        ELSE IF env = "ipadm_set_addr"
        THEN base @@ [ret |-> -3, named |-> TRUE, n |-> num,
                      num |-> num, warns |-> 1]
        ELSE IF env = "ipadm_create_addr"
        THEN base @@ [ret |-> -4, named |-> TRUE, n |-> num,
                      num |-> num, warns |-> 1]
        ELSE [base EXCEPT !.fic = IF af = AF_INET THEN TRUE ELSE @]
             @@ [ret |-> 0, named |-> TRUE, n |-> num, num |-> num + 1,
                 warns |-> 0]

\* A bug: *first_ipv4_configured is set before ipadm_create_addr is tried.
lxi_iface_ip_flag_early(addr, first_ipv4_configured, num, lifs, env) ==
    LET af == IF ~HasChar(addr, ":") THEN AF_INET ELSE AF_INET6
        g == lxi_getif(af, first_ipv4_configured, lifs, env)
        base == [af |-> af, lif |-> g.lif, lifs |-> g.lifs,
                 opened |-> g.opened, closed |-> g.closed,
                 newlif |-> g.newlif, fic |-> first_ipv4_configured]
    IN  IF g.ret # 0
        THEN base @@ [ret |-> -1, named |-> FALSE, n |-> -1, num |-> num,
                      warns |-> g.warns + 1]
        ELSE IF env = "ipadm_create_addrobj"
        THEN base @@ [ret |-> -2, named |-> TRUE, n |-> num,
                      num |-> num + 1, warns |-> 1]
        ELSE IF env = "ipadm_set_addr"
        THEN base @@ [ret |-> -3, named |-> TRUE, n |-> num,
                      num |-> num + 1, warns |-> 1]
        ELSE IF env = "ipadm_create_addr"
        THEN [base EXCEPT !.fic = IF af = AF_INET THEN TRUE ELSE @]
             @@ [ret |-> -4, named |-> TRUE, n |-> num, num |-> num + 1,
                 warns |-> 1]
        ELSE [base EXCEPT !.fic = IF af = AF_INET THEN TRUE ELSE @]
             @@ [ret |-> 0, named |-> TRUE, n |-> num, num |-> num + 1,
                 warns |-> 0]

\* lxi_iface_ip: the result carries the new values of what the function
\* writes (*first_ipv4_configured, addrnum, the kernel's interfaces).
lxi_iface_ip(addr, first_ipv4_configured, num, lifs, env) ==
    LET af == IF ~HasChar(addr, ":") THEN AF_INET ELSE AF_INET6
        g == lxi_getif(af, first_ipv4_configured, lifs, env)
        base == [af |-> af, lif |-> g.lif, lifs |-> g.lifs,
                 opened |-> g.opened, closed |-> g.closed,
                 newlif |-> g.newlif, fic |-> first_ipv4_configured]
    IN  IF g.ret # 0
        THEN base @@ [ret |-> -1, named |-> FALSE, n |-> -1, num |-> num,
                      warns |-> g.warns + 1]
        ELSE IF env = "ipadm_create_addrobj"
        THEN base @@ [ret |-> -2, named |-> TRUE, n |-> num,
                      num |-> num + 1, warns |-> 1]
        ELSE IF env = "ipadm_set_addr"
        THEN base @@ [ret |-> -3, named |-> TRUE, n |-> num,
                      num |-> num + 1, warns |-> 1]
        ELSE IF env = "ipadm_create_addr"
        THEN base @@ [ret |-> -4, named |-> TRUE, n |-> num,
                      num |-> num + 1, warns |-> 1]
        ELSE [base EXCEPT !.fic = IF af = AF_INET THEN TRUE ELSE @]
             @@ [ret |-> 0, named |-> TRUE, n |-> num, num |-> num + 1,
                 warns |-> 0]

\* The call that fails, if the function gets to it.
IpEnv == {"ok", "socket", "SIOCLIFADDIF", "ipadm_create_addrobj",
          "ipadm_set_addr", "ipadm_create_addr"}

\* A bug: *first_ipv4_configured is set once the request is sent, whatever
\* comes of it.
lxi_iface_dhcp_flag_on_send(first_ipv4_configured, lifs, env) ==
    LET g == lxi_getif(AF_INET, first_ipv4_configured, lifs, env)
        base == [lif |-> g.lif, lifs |-> g.lifs, opened |-> g.opened,
                 closed |-> g.closed, newlif |-> g.newlif,
                 fic |-> first_ipv4_configured, fatal |-> FALSE]
    IN  IF g.ret # 0
        THEN base @@ [ret |-> -1, warns |-> g.warns + 1,
                      failed |-> "lxi_getif"]
        ELSE IF env = "dhcp_start_agent"
        THEN [base EXCEPT !.fatal = TRUE]
             @@ [ret |-> -1, warns |-> 0, failed |-> env]
        ELSE IF env = "dhcp_ipc_alloc_request"
        THEN base @@ [ret |-> -1, warns |-> 1, failed |-> env]
        ELSE IF env = "dhcp_ipc_make_request"
        THEN [base EXCEPT !.fic = TRUE]
             @@ [ret |-> -1, warns |-> 1, failed |-> env]
        ELSE IF env = "return_code"
        THEN base @@ [ret |-> 1, warns |-> 1, failed |-> env]
        ELSE [base EXCEPT !.fic = TRUE]
             @@ [ret |-> 0, warns |-> 0, failed |-> ""]

\* A bug: DHCP is started on a logical interface of its own.
lxi_iface_dhcp_newlif(first_ipv4_configured, lifs, env) ==
    LET g == lxi_getif(AF_INET, TRUE, lifs, env)
        base == [lif |-> g.lif, lifs |-> g.lifs, opened |-> g.opened,
                 closed |-> g.closed, newlif |-> g.newlif,
                 fic |-> first_ipv4_configured, fatal |-> FALSE]
    IN  IF g.ret # 0
        THEN base @@ [ret |-> -1, warns |-> g.warns + 1,
                      failed |-> "lxi_getif"]
        ELSE IF env = "dhcp_start_agent"
        THEN [base EXCEPT !.fatal = TRUE]
             @@ [ret |-> -1, warns |-> 0, failed |-> env]
        ELSE IF env = "dhcp_ipc_alloc_request"
        THEN base @@ [ret |-> -1, warns |-> 1, failed |-> env]
        ELSE IF env = "dhcp_ipc_make_request"
        THEN base @@ [ret |-> -1, warns |-> 1, failed |-> env]
        ELSE IF env = "return_code"
        THEN base @@ [ret |-> 1, warns |-> 1, failed |-> env]
        ELSE [base EXCEPT !.fic = TRUE]
             @@ [ret |-> 0, warns |-> 0, failed |-> ""]

\* A bug: a DHCP agent that cannot be started is only warned about.
lxi_iface_dhcp_agent_warns(first_ipv4_configured, lifs, env) ==
    LET g == lxi_getif(AF_INET, first_ipv4_configured, lifs, env)
        base == [lif |-> g.lif, lifs |-> g.lifs, opened |-> g.opened,
                 closed |-> g.closed, newlif |-> g.newlif,
                 fic |-> first_ipv4_configured, fatal |-> FALSE]
    IN  IF g.ret # 0
        THEN base @@ [ret |-> -1, warns |-> g.warns + 1,
                      failed |-> "lxi_getif"]
        ELSE IF env = "dhcp_start_agent"
        THEN base @@ [ret |-> -1, warns |-> 1, failed |-> env]
        ELSE IF env = "dhcp_ipc_alloc_request"
        THEN base @@ [ret |-> -1, warns |-> 1, failed |-> env]
        ELSE IF env = "dhcp_ipc_make_request"
        THEN base @@ [ret |-> -1, warns |-> 1, failed |-> env]
        ELSE IF env = "return_code"
        THEN base @@ [ret |-> 1, warns |-> 1, failed |-> env]
        ELSE [base EXCEPT !.fic = TRUE]
             @@ [ret |-> 0, warns |-> 0, failed |-> ""]

\* lxi_iface_dhcp: fatal is set when dhcp_start_agent fails (lxi_err).
lxi_iface_dhcp(first_ipv4_configured, lifs, env) ==
    LET g == lxi_getif(AF_INET, first_ipv4_configured, lifs, env)
        base == [lif |-> g.lif, lifs |-> g.lifs, opened |-> g.opened,
                 closed |-> g.closed, newlif |-> g.newlif,
                 fic |-> first_ipv4_configured, fatal |-> FALSE]
    IN  IF g.ret # 0
        THEN base @@ [ret |-> -1, warns |-> g.warns + 1,
                      failed |-> "lxi_getif"]
        ELSE IF env = "dhcp_start_agent"
        THEN [base EXCEPT !.fatal = TRUE]
             @@ [ret |-> -1, warns |-> 0, failed |-> env]
        ELSE IF env = "dhcp_ipc_alloc_request"
        THEN base @@ [ret |-> -1, warns |-> 1, failed |-> env]
        ELSE IF env = "dhcp_ipc_make_request"
        THEN base @@ [ret |-> -1, warns |-> 1, failed |-> env]
        ELSE IF env = "return_code"
        THEN base @@ [ret |-> 1, warns |-> 1, failed |-> env]
        ELSE [base EXCEPT !.fic = TRUE]
             @@ [ret |-> 0, warns |-> 0, failed |-> ""]

DhcpEnv == {"ok", "socket", "SIOCLIFADDIF", "dhcp_start_agent",
            "dhcp_ipc_alloc_request", "dhcp_ipc_make_request",
            "return_code"}

\* lxi_iface_ipv6_link_local: badfd tells that an ioctl was issued on the
\* descriptor of a failed socket().
lxi_iface_ipv6_link_local(env) ==
    IF env = "socket"
    THEN [ret |-> -1, warns |-> 2, opened |-> 0, closed |-> 0,
          badfd |-> TRUE]
    ELSE IF env = "SIOCGLIFFLAGS"
    THEN [ret |-> -1, warns |-> 1, opened |-> 1, closed |-> 0,
          badfd |-> FALSE]
    ELSE IF env = "SIOCSLIFFLAGS"
    THEN [ret |-> -1, warns |-> 1, opened |-> 1, closed |-> 0,
          badfd |-> FALSE]
    ELSE [ret |-> 0, warns |-> 0, opened |-> 1, closed |-> 1,
          badfd |-> FALSE]

LinkLocalEnv == {"ok", "socket", "SIOCGLIFFLAGS", "SIOCSLIFFLAGS"}

\* The routing message lxi_iface_gateway builds in rtbuf.
RtMsg(index, dstaddr, gwaddr, mask) ==
    [type |-> "RTM_ADD",
     addrs |-> {"RTA_DST", "RTA_GATEWAY", "RTA_NETMASK"},
     flags |-> {"RTF_UP", "RTF_STATIC", "RTF_GATEWAY"},
     index |-> index, dst |-> dstaddr, gw |-> gwaddr, mask |-> mask]

\* A bug: the gateway and the netmask are written to each other's record.
lxi_iface_gateway_swapped(iface, dstnet, dstpfx, gwaddr, env) ==
    LET d == inet_pton(dstnet)
        m == plen2mask(dstpfx)
        g == inet_pton(gwaddr)
        msg == RtMsg(iface,
                     IF dstnet # NULL THEN d.addr ELSE ZeroAddr,
                     IF dstnet # NULL THEN m.mask ELSE ZeroAddr,
                     g.addr)
        none == [msgs |-> <<>>, opened |-> 0, closed |-> 0,
                 crashed |-> FALSE]
    IN  IF dstnet # NULL /\ (d.ret # 1 \/ m.ret # 0)
        THEN none @@ [ret |-> -1, warns |-> 1]
        ELSE IF gwaddr = NULL /\ env = "SIGSEGV"
        THEN [none EXCEPT !.crashed = TRUE] @@ [ret |-> -1, warns |-> 0]
        ELSE IF g.ret # 1
        THEN none @@ [ret |-> -1, warns |-> 1]
        ELSE IF iface # 0 /\ env = "if_nametoindex"
        THEN none @@ [ret |-> -1, warns |-> 1]
        ELSE IF env = "socket"
        THEN none @@ [ret |-> -1, warns |-> 1]
        ELSE IF env \in {"write", "shortwrite"}
        THEN [ret |-> -1, warns |-> 1, msgs |-> <<>>, opened |-> 1,
              closed |-> 1, crashed |-> FALSE]
        ELSE [ret |-> 0, warns |-> 0, msgs |-> <<msg>>, opened |-> 1,
              closed |-> 1, crashed |-> FALSE]

\* lxi_iface_gateway(iface, dst, dstpfx, gwaddr).  iface is 0 for NULL, else
\* the interface's index.  inet_pton on a NULL gwaddr is undefined
\* behaviour: the process dies of a signal, or the call fails.
lxi_iface_gateway(iface, dstnet, dstpfx, gwaddr, env) ==
    LET d == inet_pton(dstnet)
        m == plen2mask(dstpfx)
        g == inet_pton(gwaddr)
        msg == RtMsg(iface,
                     IF dstnet # NULL THEN d.addr ELSE ZeroAddr,
                     g.addr,
                     IF dstnet # NULL THEN m.mask ELSE ZeroAddr)
        none == [msgs |-> <<>>, opened |-> 0, closed |-> 0,
                 crashed |-> FALSE]
    IN  IF dstnet # NULL /\ (d.ret # 1 \/ m.ret # 0)
        THEN none @@ [ret |-> -1, warns |-> 1]
        ELSE IF gwaddr = NULL /\ env = "SIGSEGV"
        THEN [none EXCEPT !.crashed = TRUE] @@ [ret |-> -1, warns |-> 0]
        ELSE IF g.ret # 1
        THEN none @@ [ret |-> -1, warns |-> 1]
        ELSE IF iface # 0 /\ env = "if_nametoindex"
        THEN none @@ [ret |-> -1, warns |-> 1]
        ELSE IF env = "socket"
        THEN none @@ [ret |-> -1, warns |-> 1]
        ELSE IF env \in {"write", "shortwrite"}
        THEN [ret |-> -1, warns |-> 1, msgs |-> <<>>, opened |-> 1,
              closed |-> 1, crashed |-> FALSE]
        ELSE [ret |-> 0, warns |-> 0, msgs |-> <<msg>>, opened |-> 1,
              closed |-> 1, crashed |-> FALSE]

GatewayEnv == {"ok", "SIGSEGV", "if_nametoindex", "socket", "write",
               "shortwrite"}

----------------------------------------------------------------------------

(* Steps of main(): lxi_init, lxi_net_loopback and lxi_net_setup.          *)

\* lxi_err: log, pause(), exit(1).  The caller's step ends in "paused".
lxi_err_returns(tag) ==
    /\ pc' = pc
    /\ fatal' = tag

lxi_err(tag) ==
    /\ pc' = "paused"
    /\ fatal' = tag

\* The signal that ends pause() arrives and the process exits with status 1.
lxi_err_exit ==
    /\ pc = "paused"
    /\ pc' = "exited"
    /\ last' = [NoEvent EXCEPT !.op = "exit", !.ret = 1]
    /\ UNCHANGED <<fatal, netvars, rtmsgs, normvars, routevars>>
    /\ UNCHANGED done

\* lxi_init: the zone-wide "ipv6" attribute.
lxi_init ==
    /\ pc = "lxi_init"
    /\ \E val \in BoolAttrs :
         /\ IF val = NULL
            THEN /\ pc' = "loopback"
                 /\ UNCHANGED <<fatal, ipv6_enable>>
            ELSE IF strcmp0(val, S_true)
            THEN /\ ipv6_enable' = TRUE
                 /\ pc' = "loopback"
                 /\ UNCHANGED fatal
            ELSE IF strcmp0(val, S_false)
            THEN /\ ipv6_enable' = FALSE
                 /\ pc' = "loopback"
                 /\ UNCHANGED fatal
            ELSE /\ lxi_err("invalid value for 'ipv6' attribute")
                 /\ UNCHANGED ipv6_enable
         /\ last' = [NoEvent EXCEPT !.op = "lxi_init", !.tok = val,
                       !.warns = IF val \in {S_true, S_false} THEN 1 ELSE 0]
    /\ UNCHANGED <<addrnum, aobjnums, ifidx, fic, ipv6, no_zonecfg, ipaddrs,
                   do_addrconf, lifcnt, gateway, v4ok, v4lifs, rtmsgs,
                   normvars, routevars>>
    /\ UNCHANGED addrconf_seen
    /\ done' = IF pc' = "loopback"
               THEN done \o <<"lxi_init">>
               ELSE done

NoLifs == [f \in {AF_INET, AF_INET6} |-> 0]

\* lxi_net_loopback: plumb lo0, 127.0.0.1/8, and the link-local address.
\* Its first_ipv4_configured and the counts for lo0 end with the function.
lxi_net_loopback ==
    /\ pc = "loopback"
    /\ \E plumb \in BOOLEAN, env \in IpEnv, env6 \in LinkLocalEnv :
         IF ~plumb
         THEN /\ lxi_err("ipadm_create_if error")
              /\ last' = [NoEvent EXCEPT !.op = "plumb", !.ret = -1]
              /\ UNCHANGED <<addrnum, aobjnums>>
         ELSE \E r \in {lxi_iface_ip(S_lo4, FALSE, addrnum, NoLifs, env)},
                 l \in {lxi_iface_ipv6_link_local(env6)} :
                  /\ addrnum' = r.num
                  /\ aobjnums' = IF r.named THEN Append(aobjnums, r.n)
                                 ELSE aobjnums
                  /\ last' = [NoEvent EXCEPT !.op = "loopback",
                                !.tok = S_lo4, !.af = r.af, !.ret = r.ret,
                                !.lif = r.lif, !.newlif = r.newlif,
                                !.n = r.n,
                                !.opened = r.opened
                                   + (IF ipv6_enable THEN l.opened ELSE 0),
                                !.closed = r.closed
                                   + (IF ipv6_enable THEN l.closed ELSE 0),
                                !.warns = r.warns
                                   + (IF ipv6_enable THEN l.warns ELSE 0),
                                !.badfd = ipv6_enable /\ l.badfd]
                  /\ pc' = "getnwifent"
                  /\ UNCHANGED fatal
    /\ UNCHANGED <<ipv6_enable, ifidx, fic, ipv6, no_zonecfg, ipaddrs,
                   do_addrconf, lifcnt, gateway, v4ok, v4lifs, rtmsgs,
                   normvars, routevars>>
    /\ UNCHANGED addrconf_seen
    /\ done' = IF pc' = "getnwifent"
               THEN done \o <<"lxi_net_loopback">>
               ELSE done

\* The locals of the loop body, and the kernel's count of logical interfaces
\* of the link the body configures, end with the body.
EndOfBody ==
    /\ fic' = FALSE
    /\ ipv6' = TRUE
    /\ no_zonecfg' = FALSE
    /\ ipaddrs' = <<>>
    /\ lifcnt' = NoLifs
    /\ gateway' = NULL
    /\ v4ok' = 0
    /\ v4lifs' = {}

\* lxi_net_setup, loop head: zonecfg_getnwifent and lxi_net_plumb.  The
\* locals of the loop body are initialised for the new interface.
lxi_net_setup_getnwifent ==
    /\ pc = "getnwifent"
    /\ \E more \in BOOLEAN, plumb \in BOOLEAN :
         IF ~more \/ ifidx >= MaxIfaces
         THEN /\ pc' = "ndpd"
              /\ last' = [NoEvent EXCEPT !.op = "endnwifent"]
              /\ UNCHANGED <<fatal, ifidx, fic, ipv6, lifcnt, v4ok, v4lifs,
                             rtmsgs>>
         ELSE /\ ifidx' = ifidx + 1
              /\ fic' = FALSE
              /\ ipv6' = ipv6_enable
              /\ lifcnt' = NoLifs
              /\ v4ok' = 0
              /\ v4lifs' = {}
              /\ rtmsgs' = <<>>
              /\ last' = [NoEvent EXCEPT !.op = "plumb",
                            !.ret = IF plumb THEN 0 ELSE -1]
              /\ IF plumb
                 THEN pc' = "config" /\ UNCHANGED fatal
                 ELSE lxi_err("ipadm_create_if error")
    /\ UNCHANGED <<ipv6_enable, addrnum, aobjnums, no_zonecfg, ipaddrs,
                   do_addrconf, gateway, normvars, routevars>>
    /\ UNCHANGED <<addrconf_seen, done>>

\* A bug: "true" on an interface enables IPv6 the zone has disabled.
lxi_net_setup_config_enables ==
    /\ pc = "config"
    /\ \E allowed \in AllowedAddresses, ips \in {NULL} \cup TokenLists,
          ipv6attr \in BoolAttrs :
         /\ IF Len(allowed) > 0
            THEN ipaddrs' = allowed /\ no_zonecfg' = FALSE
            ELSE IF ips = NULL
            THEN ipaddrs' = <<>> /\ no_zonecfg' = TRUE
            ELSE ipaddrs' = ips /\ no_zonecfg' = FALSE
         /\ last' = [NoEvent EXCEPT !.op = "config", !.tok = ipv6attr,
                       !.warns = IF Len(allowed) = 0 /\ ips = NULL
                                 THEN 1 ELSE 0]
         /\ IF ipv6attr = NULL
            THEN pc' = "linklocal" /\ UNCHANGED <<fatal, ipv6>>
            ELSE IF strcmp0(ipv6attr, S_true)
            THEN IF ~ipv6
                 THEN /\ ipv6' = TRUE
                      /\ pc' = "linklocal"
                      /\ UNCHANGED fatal
                 ELSE pc' = "linklocal" /\ UNCHANGED <<fatal, ipv6>>
            ELSE IF strcmp0(ipv6attr, S_false)
            THEN /\ ipv6' = FALSE
                 /\ pc' = "linklocal"
                 /\ UNCHANGED fatal
            ELSE /\ lxi_err("invalid value for 'ipv6' attribute")
                 /\ UNCHANGED ipv6
    /\ UNCHANGED <<ipv6_enable, addrnum, aobjnums, ifidx, fic, do_addrconf,
                   lifcnt, gateway, v4ok, v4lifs, rtmsgs, normvars,
                   routevars>>
    /\ addrconf_seen' = (addrconf_seen \/
                           \E k \in 1..Len(ipaddrs') :
                               strcmp0(ipaddrs'[k], S_addrconf))
    /\ UNCHANGED done

\* lxi_net_setup: where the address list comes from (allowed-address, else
\* the "ips" attribute) and the per-interface "ipv6" attribute.
lxi_net_setup_config ==
    /\ pc = "config"
    /\ \E allowed \in AllowedAddresses, ips \in {NULL} \cup TokenLists,
          ipv6attr \in BoolAttrs :
         /\ IF Len(allowed) > 0
            THEN ipaddrs' = allowed /\ no_zonecfg' = FALSE
            ELSE IF ips = NULL
            THEN ipaddrs' = <<>> /\ no_zonecfg' = TRUE
            ELSE ipaddrs' = ips /\ no_zonecfg' = FALSE
         /\ last' = [NoEvent EXCEPT !.op = "config", !.tok = ipv6attr,
                       !.warns = IF Len(allowed) = 0 /\ ips = NULL
                                 THEN 1 ELSE 0]
         /\ IF ipv6attr = NULL
            THEN pc' = "linklocal" /\ UNCHANGED <<fatal, ipv6>>
            ELSE IF strcmp0(ipv6attr, S_true)
            THEN IF ~ipv6
                 THEN /\ lxi_err("Cannot enable ipv6 for an interface")
                      /\ UNCHANGED ipv6
                 ELSE pc' = "linklocal" /\ UNCHANGED <<fatal, ipv6>>
            ELSE IF strcmp0(ipv6attr, S_false)
            THEN /\ ipv6' = FALSE
                 /\ pc' = "linklocal"
                 /\ UNCHANGED fatal
            ELSE /\ lxi_err("invalid value for 'ipv6' attribute")
                 /\ UNCHANGED ipv6
    /\ UNCHANGED <<ipv6_enable, addrnum, aobjnums, ifidx, fic, do_addrconf,
                   lifcnt, gateway, v4ok, v4lifs, rtmsgs, normvars,
                   routevars>>
    /\ addrconf_seen' = (addrconf_seen \/
                           \E k \in 1..Len(ipaddrs') :
                               strcmp0(ipaddrs'[k], S_addrconf))
    /\ UNCHANGED done

\* A bug: an interface with no address configuration is not passed over.
lxi_net_setup_linklocal_goes_on ==
    /\ pc = "linklocal"
    /\ \E env \in LinkLocalEnv :
         \E l \in {lxi_iface_ipv6_link_local(env)} :
             IF ipv6
             THEN last' = [NoEvent EXCEPT !.op = "linklocal",
                             !.ret = l.ret, !.badfd = l.badfd,
                             !.opened = l.opened, !.closed = l.closed,
                             !.warns = l.warns
                                + (IF l.ret # 0 THEN 1 ELSE 0)]
             ELSE last' = [NoEvent EXCEPT !.op = "nolinklocal"]
    /\ pc' = "dhcp"
    /\ IF FALSE THEN EndOfBody
       ELSE UNCHANGED <<fic, ipv6, no_zonecfg, ipaddrs, lifcnt, gateway,
                        v4ok, v4lifs>>
    /\ UNCHANGED <<fatal, ipv6_enable, addrnum, aobjnums, ifidx,
                   do_addrconf, rtmsgs, normvars, routevars>>
    /\ UNCHANGED <<addrconf_seen, done>>

\* lxi_net_setup: the link-local address, then "if (no_zonecfg) continue".
lxi_net_setup_linklocal ==
    /\ pc = "linklocal"
    /\ \E env \in LinkLocalEnv :
         \E l \in {lxi_iface_ipv6_link_local(env)} :
             IF ipv6
             THEN last' = [NoEvent EXCEPT !.op = "linklocal",
                             !.ret = l.ret, !.badfd = l.badfd,
                             !.opened = l.opened, !.closed = l.closed,
                             !.warns = l.warns
                                + (IF l.ret # 0 THEN 1 ELSE 0)]
             ELSE last' = [NoEvent EXCEPT !.op = "nolinklocal"]
    /\ pc' = IF no_zonecfg THEN "getnwifent" ELSE "dhcp"
    /\ IF no_zonecfg THEN EndOfBody
       ELSE UNCHANGED <<fic, ipv6, no_zonecfg, ipaddrs, lifcnt, gateway,
                        v4ok, v4lifs>>
    /\ UNCHANGED <<fatal, ipv6_enable, addrnum, aobjnums, ifidx,
                   do_addrconf, rtmsgs, normvars, routevars>>
    /\ UNCHANGED <<addrconf_seen, done>>

\* lxi_net_setup: DHCP first, when the list names it anywhere; then the
\* list is copied for strtok_r.
lxi_net_setup_dhcp ==
    /\ pc = "dhcp"
    /\ IF \E k \in 1..Len(ipaddrs) : strstr(ipaddrs[k], S_dhcp)
       THEN \E env \in DhcpEnv :
              \E r \in {lxi_iface_dhcp(fic, lifcnt, env)} :
                  /\ fic' = r.fic
                  /\ lifcnt' = r.lifs
                  /\ v4ok' = IF r.ret = 0 THEN v4ok + 1 ELSE v4ok
                  /\ v4lifs' = IF r.ret = 0 THEN v4lifs \cup {r.lif}
                                ELSE v4lifs
                  /\ last' = [NoEvent EXCEPT !.op = "dhcp", !.tok = S_dhcp,
                                !.failed = r.failed,
                                !.af = AF_INET, !.ret = r.ret,
                                !.lif = r.lif, !.newlif = r.newlif,
                                !.opened = r.opened, !.closed = r.closed,
                                !.warns = IF r.fatal THEN 0
                                          ELSE r.warns + 1]
                  /\ IF r.fatal
                     THEN lxi_err("Failed to start dhcpagent")
                     ELSE pc' = "tokens" /\ UNCHANGED fatal
       ELSE /\ pc' = "tokens"
            /\ last' = [NoEvent EXCEPT !.op = "nodhcp"]
            /\ UNCHANGED <<fatal, fic, lifcnt, v4ok, v4lifs>>
    /\ UNCHANGED <<ipv6_enable, addrnum, aobjnums, ifidx, ipv6, no_zonecfg,
                   ipaddrs, do_addrconf, gateway, rtmsgs, normvars,
                   routevars>>
    /\ UNCHANGED <<addrconf_seen, done>>

\* A bug: a literal that cannot be applied ends the loop over the list.
lxi_net_setup_token_stops ==
    /\ pc = "tokens"
    /\ ipaddrs # <<>>
    /\ LET ipaddr == Head(ipaddrs)
       IN  IF strcmp0(ipaddr, S_addrconf)
           THEN /\ do_addrconf' = TRUE
                /\ last' = [NoEvent EXCEPT !.op = "addrconf", !.tok = ipaddr]
                /\ UNCHANGED <<fic, addrnum, aobjnums, lifcnt, v4ok,
                               v4lifs>>
           ELSE IF strcmp0(ipaddr, S_dhcp)
           THEN /\ last' = [NoEvent EXCEPT !.op = "skipdhcp", !.tok = ipaddr]
                /\ UNCHANGED <<fic, addrnum, aobjnums, lifcnt, v4ok, v4lifs,
                               do_addrconf>>
           ELSE \E env \in IpEnv :
                  \E r \in {lxi_iface_ip(ipaddr, fic, addrnum, lifcnt,
                                          env)} :
                      /\ fic' = r.fic
                      /\ addrnum' = r.num
                      /\ aobjnums' = IF r.named THEN Append(aobjnums, r.n)
                                     ELSE aobjnums
                      /\ lifcnt' = r.lifs
                      /\ v4ok' = IF r.ret = 0 /\ ~HasChar(ipaddr, ":")
                                 THEN v4ok + 1 ELSE v4ok
                      /\ v4lifs' = IF r.ret = 0 /\ ~HasChar(ipaddr, ":")
                                   THEN v4lifs \cup {r.lif} ELSE v4lifs
                      /\ last' = [NoEvent EXCEPT !.op = "ip", !.tok = ipaddr,
                                    !.af = r.af, !.ret = r.ret,
                                    !.lif = r.lif, !.newlif = r.newlif,
                                    !.n = r.n, !.opened = r.opened,
                                    !.closed = r.closed,
                                    !.warns = r.warns
                                       + (IF r.ret < 0 THEN 1 ELSE 0)]
                      /\ UNCHANGED do_addrconf
    /\ ipaddrs' = IF last'.op = "ip" /\ last'.ret < 0 THEN <<>>
                  ELSE Tail(ipaddrs)
    /\ UNCHANGED <<pc, fatal, ipv6_enable, ifidx, ipv6, no_zonecfg, gateway,
                   rtmsgs, normvars, routevars>>
    /\ UNCHANGED <<addrconf_seen, done>>

\* lxi_net_setup: one turn of the strtok_r loop.
lxi_net_setup_token ==
    /\ pc = "tokens"
    /\ ipaddrs # <<>>
    /\ LET ipaddr == Head(ipaddrs)
       IN  IF strcmp0(ipaddr, S_addrconf)
           THEN /\ do_addrconf' = TRUE
                /\ last' = [NoEvent EXCEPT !.op = "addrconf", !.tok = ipaddr]
                /\ UNCHANGED <<fic, addrnum, aobjnums, lifcnt, v4ok,
                               v4lifs>>
           ELSE IF strcmp0(ipaddr, S_dhcp)
           THEN /\ last' = [NoEvent EXCEPT !.op = "skipdhcp", !.tok = ipaddr]
                /\ UNCHANGED <<fic, addrnum, aobjnums, lifcnt, v4ok, v4lifs,
                               do_addrconf>>
           ELSE \E env \in IpEnv :
                  \E r \in {lxi_iface_ip(ipaddr, fic, addrnum, lifcnt,
                                          env)} :
                      /\ fic' = r.fic
                      /\ addrnum' = r.num
                      /\ aobjnums' = IF r.named THEN Append(aobjnums, r.n)
                                     ELSE aobjnums
                      /\ lifcnt' = r.lifs
                      /\ v4ok' = IF r.ret = 0 /\ ~HasChar(ipaddr, ":")
                                 THEN v4ok + 1 ELSE v4ok
                      /\ v4lifs' = IF r.ret = 0 /\ ~HasChar(ipaddr, ":")
                                   THEN v4lifs \cup {r.lif} ELSE v4lifs
                      /\ last' = [NoEvent EXCEPT !.op = "ip", !.tok = ipaddr,
                                    !.af = r.af, !.ret = r.ret,
                                    !.lif = r.lif, !.newlif = r.newlif,
                                    !.n = r.n, !.opened = r.opened,
                                    !.closed = r.closed,
                                    !.warns = r.warns
                                       + (IF r.ret < 0 THEN 1 ELSE 0)]
                      /\ UNCHANGED do_addrconf
    /\ ipaddrs' = Tail(ipaddrs)
    /\ UNCHANGED <<pc, fatal, ipv6_enable, ifidx, ipv6, no_zonecfg, gateway,
                   rtmsgs, normvars, routevars>>
    /\ UNCHANGED <<addrconf_seen, done>>

\* A bug: the "gateway" attribute of a primary interface is preferred to the
\* default router.
lxi_net_setup_gateway_attr_first ==
    /\ pc = "tokens"
    /\ ipaddrs = <<>>
    /\ \E defrouter \in DefRouters, primary \in BoolAttrs,
          gwattr \in GatewayAttrs :
         /\ gateway' = IF primary # NULL /\ strcmp0(primary, S_true)
                          /\ gwattr # NULL
                       THEN gwattr
                       ELSE IF Len(defrouter) > 0 THEN defrouter
                       ELSE NULL
         /\ last' = [NoEvent EXCEPT !.op = "resolve",
                       !.tok = <<defrouter, primary, gwattr>>]
    /\ pc' = "defroute"
    /\ UNCHANGED <<fatal, ipv6_enable, addrnum, aobjnums, ifidx, fic, ipv6,
                   no_zonecfg, ipaddrs, do_addrconf, lifcnt, v4ok, v4lifs,
                   rtmsgs, normvars, routevars>>
    /\ UNCHANGED <<addrconf_seen, done>>

\* lxi_net_setup, after the token loop: resolve the gateway.
lxi_net_setup_gateway ==
    /\ pc = "tokens"
    /\ ipaddrs = <<>>
    /\ \E defrouter \in DefRouters, primary \in BoolAttrs,
          gwattr \in GatewayAttrs :
         /\ gateway' = IF Len(defrouter) > 0 THEN defrouter
                       ELSE IF primary # NULL /\ strcmp0(primary, S_true)
                       THEN gwattr
                       ELSE NULL
         /\ last' = [NoEvent EXCEPT !.op = "resolve",
                       !.tok = <<defrouter, primary, gwattr>>]
    /\ pc' = "defroute"
    /\ UNCHANGED <<fatal, ipv6_enable, addrnum, aobjnums, ifidx, fic, ipv6,
                   no_zonecfg, ipaddrs, do_addrconf, lifcnt, v4ok, v4lifs,
                   rtmsgs, normvars, routevars>>
    /\ UNCHANGED <<addrconf_seen, done>>

\* A bug: a default route that cannot be installed is only noted.
lxi_net_setup_defroute_warns ==
    /\ pc = "defroute"
    /\ IF gateway # NULL
       THEN \E env \in GatewayEnv :
              \E r \in {lxi_iface_gateway(ifidx, NULL, 0, gateway, env)} :
                  /\ rtmsgs' = rtmsgs \o r.msgs
                  /\ last' = [NoEvent EXCEPT !.op = "gateway",
                                !.tok = gateway, !.ret = r.ret,
                                !.failed = IF r.ret # 0 THEN env ELSE "",
                                !.opened = r.opened, !.closed = r.closed,
                                !.warns = r.warns]
                  /\ pc' = "getnwifent"
                  /\ UNCHANGED fatal
       ELSE /\ last' = [NoEvent EXCEPT !.op = "nogateway"]
            /\ pc' = "getnwifent"
            /\ UNCHANGED <<fatal, rtmsgs>>
    /\ EndOfBody
    /\ UNCHANGED <<ipv6_enable, addrnum, aobjnums, ifidx, do_addrconf,
                   normvars, routevars>>
    /\ UNCHANGED <<addrconf_seen, done>>

\* lxi_net_setup: install the default route; the loop body ends.
lxi_net_setup_defroute ==
    /\ pc = "defroute"
    /\ IF gateway # NULL
       THEN \E env \in GatewayEnv :
              \E r \in {lxi_iface_gateway(ifidx, NULL, 0, gateway, env)} :
                  /\ rtmsgs' = rtmsgs \o r.msgs
                  /\ last' = [NoEvent EXCEPT !.op = "gateway",
                                !.tok = gateway, !.ret = r.ret,
                                !.failed = IF r.ret # 0 THEN env ELSE "",
                                !.opened = r.opened, !.closed = r.closed,
                                !.warns = r.warns]
                  /\ IF r.ret # 0
                     THEN lxi_err("default route failed")
                     ELSE pc' = "getnwifent" /\ UNCHANGED fatal
       ELSE /\ last' = [NoEvent EXCEPT !.op = "nogateway"]
            /\ pc' = "getnwifent"
            /\ UNCHANGED <<fatal, rtmsgs>>
    /\ EndOfBody
    /\ UNCHANGED <<ipv6_enable, addrnum, aobjnums, ifidx, do_addrconf,
                   normvars, routevars>>
    /\ UNCHANGED <<addrconf_seen, done>>

\* A bug: in.ndpd is started whether or not addrconf was asked for.
lxi_net_setup_ndpd_always ==
    /\ pc = "ndpd"
    /\ \E started \in BOOLEAN :
         IF TRUE
         THEN /\ last' = [NoEvent EXCEPT !.op = "ndpd",
                            !.ret = IF started THEN 0 ELSE -1]
              /\ IF started
                 THEN pc' = "normalize" /\ UNCHANGED fatal
                 ELSE lxi_err("in.ndpd failed")
         ELSE /\ last' = [NoEvent EXCEPT !.op = "nondpd"]
              /\ pc' = "normalize"
              /\ UNCHANGED fatal
    /\ IF pc' = "normalize"
       THEN /\ ifidx' = 0
            /\ do_addrconf' = FALSE
            /\ addrconf_seen' = FALSE
       ELSE UNCHANGED <<ifidx, do_addrconf, addrconf_seen>>
    /\ UNCHANGED <<ipv6_enable, addrnum, aobjnums, fic, ipv6, no_zonecfg,
                   ipaddrs, lifcnt, gateway, v4ok, v4lifs, rtmsgs, normvars,
                   routevars>>
    /\ done' = IF pc' = "normalize"
               THEN done \o <<"lxi_net_setup">>
               ELSE done

\* lxi_net_setup, after the loop: start in.ndpd when addrconf was asked for.
\* The function returns and its locals end.
lxi_net_setup_ndpd ==
    /\ pc = "ndpd"
    /\ \E started \in BOOLEAN :
         IF do_addrconf
         THEN /\ last' = [NoEvent EXCEPT !.op = "ndpd",
                            !.ret = IF started THEN 0 ELSE -1]
              /\ IF started
                 THEN pc' = "normalize" /\ UNCHANGED fatal
                 ELSE lxi_err("in.ndpd failed")
         ELSE /\ last' = [NoEvent EXCEPT !.op = "nondpd"]
              /\ pc' = "normalize"
              /\ UNCHANGED fatal
    /\ IF pc' = "normalize"
       THEN /\ ifidx' = 0
            /\ do_addrconf' = FALSE
            /\ addrconf_seen' = FALSE
       ELSE UNCHANGED <<ifidx, do_addrconf, addrconf_seen>>
    /\ UNCHANGED <<ipv6_enable, addrnum, aobjnums, fic, ipv6, no_zonecfg,
                   ipaddrs, lifcnt, gateway, v4ok, v4lifs, rtmsgs, normvars,
                   routevars>>
    /\ done' = IF pc' = "normalize"
               THEN done \o <<"lxi_net_setup">>
               ELSE done

InitVars ==
    /\ fatal = ""
    /\ ipv6_enable = TRUE
    /\ addrnum = 0
    /\ aobjnums = <<>>
    /\ ifidx = 0
    /\ fic = FALSE
    /\ ipv6 = TRUE
    /\ no_zonecfg = FALSE
    /\ ipaddrs = <<>>
    /\ do_addrconf = FALSE
    /\ lifcnt = NoLifs
    /\ gateway = NULL
    /\ v4ok = 0
    /\ v4lifs = {}
    /\ last = NoEvent
    /\ rtmsgs = <<>>
    /\ nprop = 0
    /\ max_buf = 0
    /\ propcalls = <<>>
    /\ propwarns = 0
    /\ line = <<>>
    /\ lineno = 0
    /\ i = 0
    /\ cu = <<>>
    /\ gw = NULL
    /\ dst = NULL
    /\ pfx = -1
    /\ gwcalls = <<>>
    /\ addrconf_seen = FALSE

\* main() has opened the log, started ipmgmtd and opened the ipadm handle
\* and the zone configuration; lxi_init is next.
InitNet ==
    /\ pc = "lxi_init"
    /\ InitVars
    /\ done = <<"lxi_log_open", "lxi_net_ipmgmtd_start", "lxi_net_ipadm_open",
               "lxi_config_open">>

NextNet ==
    \/ lxi_init
    \/ lxi_net_loopback
    \/ lxi_net_setup_getnwifent
    \/ lxi_net_setup_config
    \/ lxi_net_setup_linklocal
    \/ lxi_net_setup_dhcp
    \/ lxi_net_setup_token
    \/ lxi_net_setup_gateway
    \/ lxi_net_setup_defroute
    \/ lxi_net_setup_ndpd
    \/ lxi_err_exit

SpecNet == InitNet /\ [][NextNet]_vars

----------------------------------------------------------------------------

(* lxi_normalize_protocols.                                                *)

NETSTACK_BUFSZ == 524288

\* snprintf(buf, 16, "%u", n): the decimal digits of n, 15 at most.  Every n
\* the program formats is below 2^31, so no wrap-around is modelled.
RECURSIVE DecText(_)
DecText(n) ==
    IF n < 10 THEN <<Digits[n + 1]>>
    ELSE DecText(n \div 10) \o <<Digits[(n % 10) + 1]>>

snprintf_u(n) ==
    LET t == DecText(n)
    IN  IF Len(t) > 15 THEN SubSeq(t, 1, 15) ELSE t

\* sscanf(s, "%d.%d.%d", &v[0], &v[1], &v[2]) into v, which holds zeroes:
\* the conversions stop at the first field that does not match.
RECURSIVE sscanf_d3(_, _, _)
sscanf_d3(s, k, v) ==
    LET neg == s # <<>> /\ Head(s) = "-"
        body == IF s # <<>> /\ Head(s) \in {"-", "+"} THEN Tail(s) ELSE s
        digs == DigitPrefix(body)
        val == IF neg THEN 0 - DecValue(digs) ELSE DecValue(digs)
        rest == SubSeq(body, Len(digs) + 1, Len(body))
        got == [v EXCEPT ![k] = val]
    IN  IF digs = <<>> THEN v
        ELSE IF k < 3 /\ rest # <<>> /\ Head(rest) = "."
        THEN sscanf_d3(Tail(rest), k + 1, got)
        ELSE got

\* The version text of three components below 10, as the zone's
\* kernel-version attribute holds it.
VersionText(v) ==
    <<Digits[v[1] + 1], ".", Digits[v[2] + 1], ".", Digits[v[3] + 1]>>

S_340 == <<"3", ".", "4", ".", "0">>

\* The loop of lxi_kern_release_cmp over the components, from index k on.
RECURSIVE release_cmp_from(_, _, _)
release_cmp_from(zvers, cvers, k) ==
    IF k > 3 THEN 0
    ELSE IF zvers[k] > cvers[k] THEN 1
    ELSE IF zvers[k] < cvers[k] THEN -1
    ELSE release_cmp_from(zvers, cvers, k + 1)

\* A bug: the components are compared least-significant first.
RECURSIVE release_cmp_backwards(_, _, _)
release_cmp_backwards(zvers, cvers, k) ==
    IF k < 1 THEN 0
    ELSE IF zvers[k] > cvers[k] THEN 1
    ELSE IF zvers[k] < cvers[k] THEN -1
    ELSE release_cmp_backwards(zvers, cvers, k - 1)

\* A bug: the loop of lxi_kern_release_cmp runs from the patch level up.
lxi_kern_release_cmp_backwards(attr, vers) ==
    release_cmp_backwards(sscanf_d3(attr, 1, <<0, 0, 0>>),
                          sscanf_d3(vers, 1, <<0, 0, 0>>), 3)

\* lxi_kern_release_cmp, once zonecfg_lookup_attr has found the
\* kernel-version attribute attr.
lxi_kern_release_cmp(attr, vers) ==
    release_cmp_from(sscanf_d3(attr, 1, <<0, 0, 0>>),
                     sscanf_d3(vers, 1, <<0, 0, 0>>), 1)

\* The max_buf lxi_normalize_protocols settles on.
normalize_max_buf(attr) ==
    IF lxi_kern_release_cmp(attr, S_340) < 0 THEN 4 * 1024 * 1024
    ELSE 6 * 1024 * 1024

\* A bug: the base size is used as it is.
normalize_val_undoubled == snprintf_u(NETSTACK_BUFSZ)

\* The text val that send_buf and recv_buf are set to.
normalize_val == snprintf_u(NETSTACK_BUFSZ * 2)

proto_entries ==
    <<"MOD_PROTO_TCP", "MOD_PROTO_UDP", "MOD_PROTO_SCTP", "MOD_PROTO_RAWIP">>

\* A bug: the buffers are set before the limit is raised.
prop_names_bufs_first == <<"send_buf", "recv_buf", "max_buf">>

prop_names == <<"max_buf", "send_buf", "recv_buf">>

\* The call number k (from 0) of the loop: protocol k / 3, property k % 3.
PropCall(k, maxb) ==
    [prop |-> prop_names[(k % 3) + 1],
     val |-> IF k % 3 = 0 THEN snprintf_u(maxb) ELSE normalize_val,
     proto |-> proto_entries[(k \div 3) + 1]]

\* The kernel versions a zone can declare in the model.
KernVersions == [1..3 -> 0..MaxVer]

\* lxi_normalize_protocols up to its loop: the version comparison.
lxi_normalize_protocols ==
    /\ pc = "normalize"
    /\ \E found \in BOOLEAN, v \in KernVersions :
         IF ~found
         THEN /\ lxi_err("kernel-version zonecfg_lookup_attr")
              /\ last' = [NoEvent EXCEPT !.op = "kern_release_cmp",
                            !.ret = -1]
              /\ UNCHANGED max_buf
         ELSE /\ max_buf' = normalize_max_buf(VersionText(v))
              /\ last' = [NoEvent EXCEPT !.op = "kern_release_cmp",
                            !.tok = v]
              /\ pc' = "set_prop"
              /\ UNCHANGED fatal
    /\ nprop' = 0
    /\ propcalls' = <<>>
    /\ propwarns' = 0
    /\ UNCHANGED <<netvars, rtmsgs, routevars>>
    /\ UNCHANGED done

\* A bug: a property that cannot be set ends the run.
lxi_normalize_set_prop_aborts ==
    /\ pc = "set_prop"
    /\ nprop < 3 * Len(proto_entries)
    /\ \E status \in {"IPADM_SUCCESS", "IPADM_FAILURE"} :
         /\ propcalls' = Append(propcalls, PropCall(nprop, max_buf))
         /\ propwarns' = propwarns
         /\ last' = [NoEvent EXCEPT !.op = "set_prop",
                       !.ret = IF status = "IPADM_SUCCESS" THEN 0 ELSE -1]
         /\ IF status = "IPADM_SUCCESS" THEN UNCHANGED <<pc, fatal>>
            ELSE lxi_err("ipadm_set_prop error")
    /\ nprop' = nprop + 1
    /\ UNCHANGED <<netvars, rtmsgs, max_buf, routevars>>
    /\ UNCHANGED done

\* One ipadm_set_prop call of the loop; a failure is warned about.
lxi_normalize_set_prop ==
    /\ pc = "set_prop"
    /\ nprop < 3 * Len(proto_entries)
    /\ \E status \in {"IPADM_SUCCESS", "IPADM_FAILURE"} :
         /\ propcalls' = Append(propcalls, PropCall(nprop, max_buf))
         /\ propwarns' = IF status = "IPADM_SUCCESS" THEN propwarns
                         ELSE propwarns + 1
         /\ last' = [NoEvent EXCEPT !.op = "set_prop",
                       !.ret = IF status = "IPADM_SUCCESS" THEN 0 ELSE -1,
                       !.warns = IF status = "IPADM_SUCCESS" THEN 0 ELSE 1]
    /\ nprop' = nprop + 1
    /\ UNCHANGED <<pc, fatal, netvars, rtmsgs, max_buf, routevars>>
    /\ UNCHANGED done

\* lxi_normalize_protocols returns, its locals end, and main() closes the
\* zone configuration.
lxi_normalize_return ==
    /\ pc = "set_prop"
    /\ nprop = 3 * Len(proto_entries)
    /\ pc' = "static_routes"
    /\ last' = [NoEvent EXCEPT !.op = "config_close"]
    /\ nprop' = 0
    /\ max_buf' = 0
    /\ propcalls' = <<>>
    /\ propwarns' = 0
    /\ done' = done \o <<"lxi_normalize_protocols", "lxi_config_close">>
    /\ UNCHANGED <<fatal, netvars, rtmsgs, routevars>>

\* lxi_net_setup has returned: no nwif entry was configured, lo0 has its
\* address, and lxi_normalize_protocols is next.
InitNorm ==
    /\ pc = "normalize"
    /\ InitVars
    /\ done = <<"lxi_log_open", "lxi_net_ipmgmtd_start", "lxi_net_ipadm_open",
               "lxi_config_open", "lxi_init", "lxi_net_loopback",
               "lxi_net_setup">>

NextNorm ==
    \/ lxi_normalize_protocols
    \/ lxi_normalize_set_prop
    \/ lxi_normalize_return
    \/ lxi_err_exit

SpecNorm == InitNorm /\ [][NextNorm]_vars

----------------------------------------------------------------------------
(* lxi_net_static_routes and lxi_net_static_route.                         *)

S_net == <<"5", ".", "6", ".", "7", ".", "0">>
S_netBad == <<"n">>

\* The lines the routeinfo command can print in the model: each field of
\* "gateway|destination/prefix|flag" well-formed or not, each of the three
\* delimiters present or absent.
PfxNums == {0, 24, 32, 33}

PfxTexts == {DecText(n) : n \in PfxNums} \cup {<<>>, <<"-", "1">>, <<"2", "x">>}

Delim(c) == {<<c>>, <<>>}

RouteGateways == {S_gwA, S_gwBad}

RouteDests == {S_net, S_netBad}

\* Lines with a further "|" after the prefix field.
RouteOddLines ==
    {S_gwA \o <<"|">> \o S_net \o <<"/", "-", "1", "|", "2", "4", "|">>
         \o S_false,
     S_gwA \o <<"|">> \o S_net \o <<"/", "2", "4", "|", "f", "|">>
         \o S_false}

RouteLines ==
    {g \o d1 \o d \o d2 \o p \o d3 \o f :
        g \in RouteGateways, d1 \in Delim("|"),
        d \in RouteDests, d2 \in Delim("/"),
        p \in PfxTexts, d3 \in Delim("|"), f \in {S_false, S_true}}
    \cup RouteOddLines

\* A bug: custr_reset is not called after the gateway has been copied.
lxi_net_static_route_scan_noreset(c, st) ==
    IF st.gw = NULL
    THEN IF c = "|" THEN [st EXCEPT !.gw = st.cu]
         ELSE [st EXCEPT !.cu = Append(st.cu, c)]
    ELSE IF st.dst = NULL
    THEN IF c = "/" THEN [st EXCEPT !.dst = st.cu, !.cu = <<>>]
         ELSE [st EXCEPT !.cu = Append(st.cu, c)]
    ELSE IF st.pfx = -1
    THEN IF c = "|" THEN [st EXCEPT !.pfx = atoi(st.cu), !.cu = <<>>]
         ELSE [st EXCEPT !.cu = Append(st.cu, c)]
    ELSE [st EXCEPT !.cu = Append(st.cu, c)]

\* The body of the loop of lxi_net_static_route for the character c, when
\* no allocation fails: st holds cu, gw, dst and pfx.
lxi_net_static_route_scan(c, st) ==
    IF st.gw = NULL
    THEN IF c = "|" THEN [st EXCEPT !.gw = st.cu, !.cu = <<>>]
         ELSE [st EXCEPT !.cu = Append(st.cu, c)]
    ELSE IF st.dst = NULL
    THEN IF c = "/" THEN [st EXCEPT !.dst = st.cu, !.cu = <<>>]
         ELSE [st EXCEPT !.cu = Append(st.cu, c)]
    ELSE IF st.pfx = -1
    THEN IF c = "|" THEN [st EXCEPT !.pfx = atoi(st.cu), !.cu = <<>>]
         ELSE [st EXCEPT !.cu = Append(st.cu, c)]
    ELSE [st EXCEPT !.cu = Append(st.cu, c)]

\* The allocation the loop body makes for c: strdup when a field ends,
\* custr_appendc otherwise.
scan_alloc(c, st) ==
    IF \/ st.gw = NULL /\ c = "|"
       \/ st.gw # NULL /\ st.dst = NULL /\ c = "/"
    THEN "strdup"
    ELSE IF st.gw # NULL /\ st.dst # NULL /\ st.pfx = -1 /\ c = "|"
    THEN "none"
    ELSE "custr_appendc"

\* lxi_net_static_routes up to the launch of the routeinfo command.
lxi_net_static_routes ==
    /\ pc = "static_routes"
    /\ \E outcome \in {"no_routeinfo", "launch_failed", "launched"} :
         /\ last' = [NoEvent EXCEPT !.op = "static_routes",
                       !.failed = IF outcome = "launched" THEN ""
                                  ELSE outcome]
         /\ CASE outcome = "no_routeinfo" ->
                   pc' = "ipadm_close" /\ UNCHANGED fatal
              [] outcome = "launch_failed" ->
                   lxi_err("failed to run routeinfo")
              [] OTHER -> pc' = "feed" /\ UNCHANGED fatal
    /\ lineno' = 0
    /\ rtmsgs' = <<>>
    /\ UNCHANGED <<netvars, normvars, line, i, cu, gw, dst, pfx, gwcalls>>
    /\ done' = IF pc' = "ipadm_close"
               THEN done \o <<"lxi_net_static_routes">>
               ELSE done

\* run_command hands one line of output to lxi_net_static_route, which
\* allocates cu.
lxi_net_static_route_begin ==
    /\ pc = "feed"
    /\ lineno < MaxLines
    /\ \E l \in RouteLines, failed \in {"", "custr_alloc"} :
         /\ line' = l
         /\ last' = [NoEvent EXCEPT !.op = "line", !.tok = l,
                       !.failed = failed]
         /\ IF failed # "" THEN lxi_err("custr_alloc failure")
            ELSE pc' = "scan" /\ UNCHANGED fatal
    /\ lineno' = lineno + 1
    /\ i' = 0
    /\ cu' = <<>>
    /\ gw' = NULL
    /\ dst' = NULL
    /\ pfx' = -1
    /\ gwcalls' = <<>>
    /\ rtmsgs' = <<>>
    /\ UNCHANGED <<netvars, normvars>>
    /\ UNCHANGED done

\* One iteration of the loop of lxi_net_static_route.
lxi_net_static_route_char ==
    /\ pc = "scan"
    /\ i < Len(line)
    /\ LET c == line[i + 1]
           st == [cu |-> cu, gw |-> gw, dst |-> dst, pfx |-> pfx]
           alloc == scan_alloc(c, st)
       IN  \E failed \in {"", alloc} \ {"none"} :
             /\ last' = [NoEvent EXCEPT !.op = "scan", !.tok = <<c>>,
                           !.failed = failed]
             /\ IF failed # ""
                THEN /\ lxi_err(failed)
                     /\ UNCHANGED <<i, cu, gw, dst, pfx>>
                ELSE \E r \in {lxi_net_static_route_scan(c, st)} :
                       /\ cu' = r.cu
                       /\ gw' = r.gw
                       /\ dst' = r.dst
                       /\ pfx' = r.pfx
                       /\ i' = i + 1
                       /\ UNCHANGED <<pc, fatal>>
    /\ UNCHANGED <<netvars, normvars, rtmsgs, line, lineno, gwcalls>>
    /\ UNCHANGED done

\* A bug: a route that cannot be installed is only noted.
lxi_net_static_route_install_warns ==
    /\ pc = "scan"
    /\ i = Len(line)
    /\ gwcalls' = Append(gwcalls,
                         [iface |-> NULL, dst |-> dst, pfx |-> pfx,
                          gw |-> gw])
    /\ \E env \in GatewayEnv \ {"if_nametoindex"} :
         /\ env = "SIGSEGV" => gw = NULL
         /\ \E r \in {lxi_iface_gateway(0, dst, pfx, gw, env)} :
              /\ rtmsgs' = rtmsgs \o r.msgs
              /\ last' = [NoEvent EXCEPT !.op = "route", !.tok = line,
                            !.ret = r.ret, !.failed = env,
                            !.opened = r.opened, !.closed = r.closed,
                            !.warns = r.warns +
                                      IF cu # S_false THEN 1 ELSE 0]
              /\ IF r.crashed
                 THEN pc' = "killed" /\ UNCHANGED fatal
                 ELSE pc' = "feed" /\ UNCHANGED fatal
    /\ UNCHANGED <<netvars, normvars, line, lineno, i, cu, gw, dst, pfx>>
    /\ UNCHANGED done

\* A bug: a line whose flag is not "false" installs nothing.
lxi_net_static_route_install_flagged ==
    /\ pc = "scan"
    /\ i = Len(line)
    /\ gwcalls' = Append(gwcalls,
                         [iface |-> NULL, dst |-> dst, pfx |-> pfx,
                          gw |-> gw])
    /\ \E env \in GatewayEnv \ {"if_nametoindex"} :
         /\ env = "SIGSEGV" => gw = NULL
         /\ \E r \in {IF cu = S_false
                      THEN lxi_iface_gateway(0, dst, pfx, gw, env)
                      ELSE [ret |-> 0, warns |-> 0, msgs |-> <<>>,
                            opened |-> 0, closed |-> 0,
                            crashed |-> FALSE]} :
              /\ rtmsgs' = rtmsgs \o r.msgs
              /\ last' = [NoEvent EXCEPT !.op = "route", !.tok = line,
                            !.ret = r.ret, !.failed = env,
                            !.opened = r.opened, !.closed = r.closed,
                            !.warns = r.warns +
                                      IF cu # S_false THEN 1 ELSE 0]
              /\ IF r.crashed
                 THEN pc' = "killed" /\ UNCHANGED fatal
                 ELSE IF r.ret # 0
                 THEN lxi_err("failed to add route")
                 ELSE pc' = "feed" /\ UNCHANGED fatal
    /\ UNCHANGED <<netvars, normvars, line, lineno, i, cu, gw, dst, pfx>>
    /\ UNCHANGED done

\* lxi_net_static_route after the loop: the flag check and the install.
lxi_net_static_route_install ==
    /\ pc = "scan"
    /\ i = Len(line)
    /\ gwcalls' = Append(gwcalls,
                         [iface |-> NULL, dst |-> dst, pfx |-> pfx,
                          gw |-> gw])
    /\ \E env \in GatewayEnv \ {"if_nametoindex"} :
         /\ env = "SIGSEGV" => gw = NULL
         /\ \E r \in {lxi_iface_gateway(0, dst, pfx, gw, env)} :
              /\ rtmsgs' = rtmsgs \o r.msgs
              /\ last' = [NoEvent EXCEPT !.op = "route", !.tok = line,
                            !.ret = r.ret, !.failed = env,
                            !.opened = r.opened, !.closed = r.closed,
                            !.warns = r.warns +
                                      IF cu # S_false THEN 1 ELSE 0]
              /\ IF r.crashed
                 THEN pc' = "killed" /\ UNCHANGED fatal
                 ELSE IF r.ret # 0
                 THEN lxi_err("failed to add route")
                 ELSE pc' = "feed" /\ UNCHANGED fatal
    /\ UNCHANGED <<netvars, normvars, line, lineno, i, cu, gw, dst, pfx>>
    /\ UNCHANGED done

\* The routeinfo command ends and run_command returns its exit code.
lxi_net_static_routes_exit ==
    /\ pc = "feed"
    /\ \E code \in {0, 1} :
         /\ last' = [NoEvent EXCEPT !.op = "feed_exit", !.ret = code]
         /\ IF code # 0 THEN lxi_err("failed to run routeinfo")
            ELSE pc' = "ipadm_close" /\ UNCHANGED fatal
    /\ UNCHANGED <<netvars, normvars, rtmsgs, routevars>>
    /\ done' = IF pc' = "ipadm_close"
               THEN done \o <<"lxi_net_static_routes">>
               ELSE done

\* lxi_normalize_protocols has returned and the zone configuration is
\* closed: lxi_net_static_routes is next.
InitRoute ==
    /\ pc = "static_routes"
    /\ InitVars
    /\ done = <<"lxi_log_open", "lxi_net_ipmgmtd_start", "lxi_net_ipadm_open",
               "lxi_config_open", "lxi_init", "lxi_net_loopback",
               "lxi_net_setup", "lxi_normalize_protocols",
               "lxi_config_close">>

NextRoute ==
    \/ lxi_net_static_routes
    \/ lxi_net_static_route_begin
    \/ lxi_net_static_route_char
    \/ lxi_net_static_route_install
    \/ lxi_net_static_routes_exit
    \/ lxi_err_exit

SpecRoute == InitRoute /\ [][NextRoute]_vars

----------------------------------------------------------------------------
(* main(): the calls before lxi_init and after lxi_net_static_routes.      *)

\* What the parent sees of lxi_svc_start: fork fails, or the child is
\* waited for and has exited with 0, exited with another status (an execve
\* failure in the child ends in exit(1)), died of a signal, or neither.
SvcOutcomes == {"exit0", "fork", "exited", "signaled", "unknown"}

\* lxi_svc_start: "" when it returns, else the lxi_err it ends in.
lxi_svc_start(name, outcome) ==
    CASE outcome = "exit0" -> ""
      [] outcome = "fork" -> "fork() failed"
      [] outcome = "exited" -> name \o " exited"
      [] outcome = "signaled" -> name \o " died on signal"
      [] OTHER -> name \o " failed in unknown way"

\* A step of main() that touches none of the state of the later calls.
MainStep(op, failed, tag, nextpc, name) ==
    /\ last' = [NoEvent EXCEPT !.op = op, !.failed = failed,
                  !.ret = IF failed = "" THEN 0 ELSE -1]
    /\ IF tag # ""
       THEN lxi_err(tag) /\ UNCHANGED done
       ELSE /\ pc' = nextpc
            /\ done' = Append(done, name)
            /\ UNCHANGED fatal
    /\ UNCHANGED <<netvars, rtmsgs, normvars, routevars>>

\* lxi_log_open: /dev/console becomes fd 1, or the process exits with 1.
lxi_log_open ==
    /\ pc = "log_open"
    /\ \E failed \in {"", "open", "dup2"} :
         /\ IF failed = ""
            THEN /\ pc' = "ipmgmtd_start"
                 /\ done' = Append(done, "lxi_log_open")
                 /\ last' = [NoEvent EXCEPT !.op = "lxi_log_open"]
            ELSE /\ pc' = "exited"
                 /\ last' = [NoEvent EXCEPT !.op = "exit", !.ret = 1,
                               !.failed = failed]
                 /\ UNCHANGED done
    /\ UNCHANGED <<fatal, netvars, rtmsgs, normvars, routevars>>

lxi_net_ipmgmtd_start ==
    /\ pc = "ipmgmtd_start"
    /\ \E outcome \in SvcOutcomes :
         MainStep("lxi_net_ipmgmtd_start",
                  IF outcome = "exit0" THEN "" ELSE outcome,
                  lxi_svc_start("ipmgmtd", outcome),
                  "ipadm_open", "lxi_net_ipmgmtd_start")

lxi_net_ipadm_open ==
    /\ pc = "ipadm_open"
    /\ \E failed \in {"", "ipadm_open"} :
         MainStep("lxi_net_ipadm_open", failed,
                  IF failed = "" THEN "" ELSE "Error opening ipadm handle",
                  "config_open", "lxi_net_ipadm_open")

lxi_config_open ==
    /\ pc = "config_open"
    /\ \E failed \in {"", "getzonenamebyid", "zonecfg_init_handle",
                      "zonecfg_get_handle", "zonecfg_get_iptype"} :
         MainStep("lxi_config_open", failed,
                  CASE failed = "" -> ""
                    [] failed = "getzonenamebyid" ->
                         "could not determine zone name"
                    [] failed = "zonecfg_init_handle" ->
                         "internal libzonecfg.so.1 error"
                    [] failed = "zonecfg_get_handle" ->
                         "could not locate zone config"
                    [] OTHER -> "lx zones do not support shared IP stacks",
                  "lxi_init", "lxi_config_open")

lxi_net_ipadm_close ==
    /\ pc = "ipadm_close"
    /\ MainStep("lxi_net_ipadm_close", "", "", "postnet",
                "lxi_net_ipadm_close")

\* lxi_hook_postnet: without an executable hook it returns; else the hook
\* runs as a child (which exits with 0 when its execve fails with EACCES)
\* and is waited for.
lxi_hook_postnet ==
    /\ pc = "postnet"
    /\ \E outcome \in SvcOutcomes \cup {"access"} :
         MainStep("lxi_hook_postnet",
                  IF outcome = "exit0" THEN "" ELSE outcome,
                  IF outcome = "access" THEN ""
                  ELSE lxi_svc_start("hook", outcome),
                  "log_close", "lxi_hook_postnet")

lxi_log_close ==
    /\ pc = "log_close"
    /\ MainStep("lxi_log_close", "", "", "init_exec", "lxi_log_close")

\* lxi_init_exec: execve of /sbin/init.  When it fails, the log is opened
\* again (or the process exits with 1) and lxi_err ends the run.
lxi_init_exec ==
    /\ pc = "init_exec"
    /\ \E failed \in {"", "execve", "open", "dup2"} :
         /\ last' = IF failed \in {"", "execve"}
                    THEN [NoEvent EXCEPT !.op = "execve", !.failed = failed,
                            !.ret = IF failed = "" THEN 0 ELSE -1]
                    ELSE [NoEvent EXCEPT !.op = "exit", !.failed = failed,
                            !.ret = 1]
         /\ IF failed = ""
            THEN /\ pc' = "init"
                 /\ done' = Append(done, "lxi_init_exec")
                 /\ UNCHANGED fatal
            ELSE IF failed = "execve"
            THEN lxi_err("execve(/sbin/init) failed") /\ UNCHANGED done
            ELSE pc' = "exited" /\ UNCHANGED <<fatal, done>>
    /\ UNCHANGED <<netvars, rtmsgs, normvars, routevars>>

\* main() begins.
Init ==
    /\ pc = "log_open"
    /\ InitVars
    /\ done = <<>>

Next ==
    \/ lxi_log_open
    \/ lxi_net_ipmgmtd_start
    \/ lxi_net_ipadm_open
    \/ lxi_config_open
    \/ lxi_init
    \/ lxi_net_loopback
    \/ lxi_net_setup_getnwifent
    \/ lxi_net_setup_config
    \/ lxi_net_setup_linklocal
    \/ lxi_net_setup_dhcp
    \/ lxi_net_setup_token
    \/ lxi_net_setup_gateway
    \/ lxi_net_setup_defroute
    \/ lxi_net_setup_ndpd
    \/ lxi_normalize_protocols
    \/ lxi_normalize_set_prop
    \/ lxi_normalize_return
    \/ lxi_net_static_routes
    \/ lxi_net_static_route_begin
    \/ lxi_net_static_route_char
    \/ lxi_net_static_route_install
    \/ lxi_net_static_routes_exit
    \/ lxi_net_ipadm_close
    \/ lxi_hook_postnet
    \/ lxi_log_close
    \/ lxi_init_exec
    \/ lxi_err_exit

Spec == Init /\ [][Next]_vars

----------------------------------------------------------------------------
(* Properties of the address assignment (lxi_getif, lxi_iface_ip,          *)
(* lxi_iface_dhcp, lxi_net_setup).                                         *)

\* The last step brought an IPv4 address up on the interface being
\* configured: a literal address, or a DHCP start.
V4Applied ==
    /\ last.op \in {"ip", "dhcp"}
    /\ last.af = AF_INET
    /\ last.ret = 0

\* C1: of the IPv4 addresses brought up on one interface, the first one is
\* on the base interface name and every later one is on a logical interface
\* that lxi_getif has just had allocated; no two of them share an interface.
C1_FirstIPv4OnBaseRestOnNewLifs ==
    /\ Cardinality(v4lifs) = v4ok
    /\ v4ok >= 1 => 0 \in v4lifs
    /\ V4Applied /\ v4ok = 1 => last.lif = 0 /\ ~last.newlif
    /\ V4Applied /\ v4ok > 1 =>
          /\ last.newlif
          /\ last.lif # 0
          /\ last.lif = lifcnt[AF_INET]

\* C1, witness: a third IPv4 address is up, on a new logical interface.
C1_Witness ==
    /\ V4Applied
    /\ last.op = "ip"
    /\ v4ok = 3
    /\ last.newlif

\* The last step named an address object for an IPv6 literal.
V6Placed ==
    /\ last.op = "ip"
    /\ HasChar(last.tok, ":")
    /\ last.n # -1

\* C2: an address whose text holds ":" is never put on the base interface
\* name: the interface it is put on is one lxi_getif has just had
\* allocated, whatever first_ipv4_configured is.
C2_IPv6AlwaysOnNewLif ==
    V6Placed => last.newlif /\ last.lif # 0 /\ last.lif = lifcnt[AF_INET6]

\* C2, witness: the first address of an interface is an IPv6 literal, put
\* on a new logical interface while first_ipv4_configured is still false.
C2_Witness ==
    /\ V6Placed
    /\ ~fic
    /\ v4ok = 0
    /\ last.lif = 1

\* C3: the numbers of the address-object names built in one run strictly
\* increase, so none repeats, whether the assignments succeeded or failed;
\* addrnum is above all of them.
C3_AddrnumNeverRepeats ==
    /\ \A j, k \in 1..Len(aobjnums) : j < k => aobjnums[j] < aobjnums[k]
    /\ \A k \in 1..Len(aobjnums) : aobjnums[k] < addrnum

\* C3, witness: on the second interface, after three names were built, an
\* assignment that got its name fails.
C3_Witness ==
    /\ ifidx = 2
    /\ Len(aobjnums) > 3
    /\ last.op = "ip"
    /\ last.n # -1
    /\ last.ret < 0

\* The last step was a DHCP start whose dhcp_ipc_make_request failed.
DhcpTimedOut ==
    /\ last.op = "dhcp"
    /\ last.failed = "dhcp_ipc_make_request"

\* C8: a DHCP request that times out leaves first_ipv4_configured false,
\* is warned about and is not fatal, and the token loop of the same
\* interface is the next thing to run.
C8_DhcpTimeoutIsNotFatal ==
    DhcpTimedOut =>
        /\ ~fic
        /\ v4ok = 0
        /\ last.warns >= 1
        /\ fatal = ""
        /\ pc = "tokens"
        /\ ENABLED lxi_net_setup_token

\* C8, witness: the request has timed out and a literal of the list waits.
C8_Witness ==
    /\ DhcpTimedOut
    /\ \E k \in 1..Len(ipaddrs) : ipaddrs[k] = S_v4

\* The steps between which first_ipv4_configured belongs to one interface.
InPass == pc \in {"config", "linklocal", "dhcp", "tokens"}

\* C10: first_ipv4_configured is false when the pass of an interface
\* begins; within the pass it never goes from true to false; it goes from
\* false to true only in a step that started DHCP or brought an IPv4
\* literal up; a step whose assignment failed leaves it as it was.
C10_FlagOnlyRises ==
    [][/\ (pc = "getnwifent" /\ pc' = "config" => ~fic')
       /\ (InPass /\ fic /\ pc' # "getnwifent" => fic')
       /\ (~fic /\ fic' => /\ last'.op \in {"ip", "dhcp"}
                           /\ last'.af = AF_INET
                           /\ last'.ret = 0)
       /\ (last'.op \in {"ip", "dhcp"} /\ last'.ret # 0 => fic' = fic)]_vars

\* C10, witness: with the flag set, a later assignment of the pass fails.
C10_Witness ==
    /\ fic
    /\ pc = "tokens"
    /\ last.op = "ip"
    /\ last.ret < 0

----------------------------------------------------------------------------
(* Properties of lxi_normalize_protocols.                                  *)

BufCalls == {k \in 1..Len(propcalls) :
               propcalls[k].prop \in {"send_buf", "recv_buf"}}

\* C6 as the specification words it: every send_buf and recv_buf is set
\* to 2*1024*1024 = 2097152.  The program does not do this.
C6_BuffersAreTwoMiB ==
    \A k \in BufCalls :
        propcalls[k].val = <<"2", "0", "9", "7", "1", "5", "2">>

\* C6: whatever the kernel version, every protocol's send_buf and recv_buf
\* are set to the same value, twice NETSTACK_BUFSZ (524288), which is
\* 1048576 = 1 MiB; each protocol gets both once its iteration is over.
C6_BuffersAreTwiceBufsz ==
    /\ \A k \in BufCalls :
         propcalls[k].val = <<"1", "0", "4", "8", "5", "7", "6">>
    /\ \A p \in 1..(nprop \div 3) :
         /\ propcalls[3 * p - 1] =
              [prop |-> "send_buf", val |-> propcalls[3 * p].val,
               proto |-> proto_entries[p]]
         /\ propcalls[3 * p].prop = "recv_buf"
         /\ propcalls[3 * p].proto = proto_entries[p]

C6_Witness ==
    /\ nprop = 12
    /\ Len(propcalls) = 12
    /\ max_buf = 6 * 1024 * 1024
    /\ propcalls[12].proto = "MOD_PROTO_RAWIP"

Compared == last.op = "kern_release_cmp" /\ last.ret = 0

\* C7: max_buf is 4 MiB exactly when the declared version (a, b, c) comes
\* before (3, 4, 0) in the lexicographic order, a first, and 6 MiB
\* otherwise.
C7_MaxBufByLexicographicVersion ==
    Compared =>
        LET a == last.tok[1]
            b == last.tok[2]
            c == last.tok[3]
            below == a < 3 \/ (a = 3 /\ b < 4) \/ (a = 3 /\ b = 4 /\ c < 0)
        IN  max_buf = IF below THEN 4194304 ELSE 6291456

C7_Witness ==
    /\ Compared
    /\ last.tok = <<3, 3, 4>>
    /\ max_buf = 4194304

C7_WitnessHigher ==
    /\ Compared
    /\ last.tok = <<4, 0, 0>>
    /\ max_buf = 6291456

----------------------------------------------------------------------------
(* Properties of the static routes.                                        *)

RouteCalled == last.op = "route"

WellFormedLine(g, d, n) ==
    g \o <<"|">> \o d \o <<"/">> \o DecText(n) \o <<"|">> \o S_false

\* C4: a line gateway|destination/prefix|false makes exactly one call of
\* lxi_iface_gateway, with that gateway, that destination, that prefix
\* length and no interface; no call happens while the line is scanned.
C4_WellFormedLineInstallsOnce ==
    /\ pc = "scan" => gwcalls = <<>>
    /\ \A g \in RouteGateways, d \in RouteDests, n \in PfxNums :
         RouteCalled /\ line = WellFormedLine(g, d, n) =>
             /\ gwcalls = <<[iface |-> NULL, dst |-> d, pfx |-> n,
                             gw |-> g]>>
             /\ cu = S_false

C4_Witness ==
    /\ RouteCalled
    /\ line = WellFormedLine(S_gwA, S_net, 24)
    /\ gwcalls = <<[iface |-> NULL, dst |-> S_net, pfx |-> 24,
                    gw |-> S_gwA]>>
    /\ last.ret = 0
    /\ Len(rtmsgs) = 1

\* The line l has its three delimiters: a '|', later a '/', later a '|'.
Complete(l) ==
    \E a, b, c \in 1..Len(l) :
        /\ a < b
        /\ b < c
        /\ l[a] = "|"
        /\ l[b] = "/"
        /\ l[c] = "|"

\* C5: lxi_iface_gateway is called only for a line that has all of its
\* delimiters; a line missing one never reaches the installer.
C5_MissingDelimiterNeverInstalls ==
    gwcalls # <<>> => Complete(line)

\* The netmask of prefix length p, octet by octet: bit j of the 32 is set
\* exactly when j <= p.
CidrOctet(p, k) ==
    LET bit(b) == IF 8 * (k - 1) + b <= p THEN Pow2(8 - b) ELSE 0
    IN  bit(1) + bit(2) + bit(3) + bit(4) + bit(5) + bit(6) + bit(7) + bit(8)

CidrMask(p) == [k \in 1..4 |-> CidrOctet(p, k)]

\* C9: a successful lxi_iface_gateway writes one message; without a
\* destination its destination and netmask are all zero; with destination
\* (net, p) they are net and the CIDR netmask of p (0.0.0.0 for 0,
\* 255.255.255.0 for 24, 255.255.255.255 for 32); the gateway record holds
\* the gateway.  A failed call writes nothing.
C9_RouteEncoding ==
    RouteCalled =>
        IF last.ret # 0 THEN rtmsgs = <<>>
        ELSE /\ Len(rtmsgs) = 1
             /\ gw = S_gwA
             /\ rtmsgs[1].gw = <<9, 9, 9, 1>>
             /\ dst = NULL =>
                  /\ rtmsgs[1].dst = <<0, 0, 0, 0>>
                  /\ rtmsgs[1].mask = <<0, 0, 0, 0>>
             /\ dst # NULL =>
                  /\ dst = S_net
                  /\ rtmsgs[1].dst = <<5, 6, 7, 0>>
                  /\ rtmsgs[1].mask = CidrMask(pfx)
                  /\ pfx = 0 => rtmsgs[1].mask = <<0, 0, 0, 0>>
                  /\ pfx = 24 => rtmsgs[1].mask = <<255, 255, 255, 0>>
                  /\ pfx = 32 => rtmsgs[1].mask = <<255, 255, 255, 255>>

C9_Witness ==
    /\ RouteCalled
    /\ last.ret = 0
    /\ dst = S_net
    /\ pfx = 32
    /\ rtmsgs[1].mask = <<255, 255, 255, 255>>

C9_WitnessDefault ==
    /\ RouteCalled
    /\ last.ret = 0
    /\ dst = NULL
    /\ rtmsgs[1].mask = <<0, 0, 0, 0>>

----------------------------------------------------------------------------
(* Properties of main() and of the fatal errors.                           *)

\* The calls main() makes before lxi_init_exec, in its order.
CallsBeforeExec ==
    <<"lxi_log_open", "lxi_net_ipmgmtd_start", "lxi_net_ipadm_open",
      "lxi_config_open", "lxi_init", "lxi_net_loopback", "lxi_net_setup",
      "lxi_normalize_protocols", "lxi_config_close", "lxi_net_static_routes",
      "lxi_net_ipadm_close", "lxi_hook_postnet", "lxi_log_close">>

\* C11: /sbin/init is entered only in a step of lxi_init_exec taken when
\* every earlier call of main() has returned, in main()'s order, and no
\* lxi_err was raised; nothing happens after it, so it is entered at most
\* once.  Once lxi_err is raised the process is paused or has exited, the
\* only step left is the exit with status 1, and that step changes nothing
\* else: no configuration and no execve follows.
C11_HandoffLastAndFatalStops ==
    /\ [](pc = "init" => done = Append(CallsBeforeExec, "lxi_init_exec")
                         /\ fatal = "")
    /\ [](fatal # "" => pc \in {"paused", "exited"})
    /\ [](pc = "exited" => last.op = "exit" /\ last.ret = 1)
    /\ [][/\ pc = "init" => pc' = "init"
          /\ pc' = "init" /\ pc # "init" =>
                /\ pc = "init_exec"
                /\ done = CallsBeforeExec
                /\ last'.op = "execve"
                /\ last'.ret = 0
          /\ fatal # "" =>
                /\ pc = "paused"
                /\ pc' = "exited"
                /\ UNCHANGED <<fatal, done, netvars, rtmsgs, normvars,
                               routevars>>
          /\ pc \in {"exited", "killed"} => pc' = pc
          /\ \A k \in 1..Len(done) : Len(done') >= k /\ done'[k] = done[k]
         ]_vars

C11_Witness ==
    /\ pc = "init"
    /\ Len(done) = 14
    /\ last.op = "execve"
    /\ fatal = ""

\* A run that lxi_err stopped after lxi_net_setup had returned.
C11_WitnessFatal ==
    /\ pc = "exited"
    /\ fatal # ""
    /\ Len(done) = 9

----------------------------------------------------------------------------
(* Properties of the default route of an interface.                        *)

\* The last step was the default-route step of an interface's pass.
DefRouteTried == last.op = "gateway"

\* C12: when the gateway of an interface is resolved and
\* lxi_iface_gateway fails for it, whatever the reason, lxi_err is raised
\* and no further interface is taken from the configuration; when no
\* gateway is resolved, no routing socket is opened and nothing is written.
C12_DefaultRouteFailureIsFatal ==
    /\ [](DefRouteTried /\ last.ret # 0 =>
            /\ fatal # ""
            /\ pc \in {"paused", "exited"}
            /\ rtmsgs = <<>>)
    /\ [](DefRouteTried /\ last.ret = 0 => fatal = "" /\ Len(rtmsgs) = 1)
    /\ [](last.op = "nogateway" =>
            /\ rtmsgs = <<>>
            /\ last.opened = 0
            /\ fatal = "")
    /\ [][/\ pc = "defroute" /\ gateway # NULL => last'.op = "gateway"
          /\ pc = "defroute" /\ gateway = NULL => last'.op = "nogateway"
          /\ fatal # "" => ifidx' = ifidx /\ pc' # "getnwifent"
         ]_vars

C12_Witness ==
    /\ DefRouteTried
    /\ last.failed = "shortwrite"
    /\ last.opened = 1
    /\ ifidx = 1
    /\ ifidx < MaxIfaces
    /\ pc = "paused"
    /\ fatal # ""

----------------------------------------------------------------------------
(* Properties of DHCP in lxi_net_setup.                                    *)

NamesDhcp(list) == \E k \in 1..Len(list) : list[k] = S_dhcp

\* C13: an interface whose list names dhcp gets lxi_iface_dhcp called in
\* the step before its token loop, when no token has been taken from the
\* list and nothing was assigned in the pass; the call works on the base
\* interface name, no logical interface is allocated for it; literals are
\* applied in the token loop only, which is entered from that step only.
C13_DhcpFirstOnBaseInterface ==
    /\ [](last.op = "dhcp" => last.lif = 0 /\ ~last.newlif
                              /\ lifcnt = NoLifs)
    /\ [][/\ pc = "dhcp" /\ NamesDhcp(ipaddrs) =>
                /\ last'.op = "dhcp"
                /\ ipaddrs' = ipaddrs
                /\ v4ok = 0
                /\ ~fic
                /\ lifcnt = NoLifs
          /\ last'.op = "dhcp" => pc = "dhcp"
          /\ last'.op = "ip" => pc = "tokens"
          /\ pc' = "tokens" /\ pc # "tokens" => pc = "dhcp"
         ]_vars

C13_Witness ==
    /\ last.op = "dhcp"
    /\ last.ret = 0
    /\ Len(ipaddrs) = 3
    /\ ipaddrs[1] = S_v4
    /\ ipaddrs[2] = S_v6
    /\ ipaddrs[3] = S_dhcp
    /\ pc = "tokens"

DhcpFailed == last.op = "dhcp" /\ last.ret # 0

\* C14 as the specification words it: no failure of the DHCP step is
\* fatal.  The program does not do this.
C14_NoDhcpFailureIsFatal ==
    DhcpFailed => fatal = "" /\ pc = "tokens"

\* C14: a failure of the DHCP step is warned about and the token loop of
\* the interface follows, with first_ipv4_configured still false, when
\* lxi_getif fails, the request cannot be allocated, the IPC request fails
\* or the reply carries a non-zero return code; when dhcp_start_agent
\* fails, lxi_err is raised and the run stops.
C14_OnlyAgentStartFailureIsFatal ==
    DhcpFailed =>
        IF last.failed = "dhcp_start_agent"
        THEN fatal # "" /\ pc = "paused"
        ELSE /\ last.failed \in {"lxi_getif", "dhcp_ipc_alloc_request",
                                 "dhcp_ipc_make_request", "return_code"}
             /\ fatal = ""
             /\ pc = "tokens"
             /\ last.warns >= 1
             /\ ~fic

C14_Witness ==
    /\ DhcpFailed
    /\ last.failed = "return_code"
    /\ pc = "tokens"
    /\ ipaddrs # <<>>

C14_WitnessFatal ==
    /\ DhcpFailed
    /\ last.failed = "dhcp_start_agent"
    /\ pc = "paused"

----------------------------------------------------------------------------
(* Properties of addrconf and in.ndpd.                                     *)

NdpdStarted == last.op = "ndpd"

\* C15: in.ndpd is started in one step only, the last of lxi_net_setup,
\* which is taken once, after zonecfg_getnwifent has returned no further
\* interface; it is started in that step exactly when the address list of
\* one of the interfaces named addrconf.  A step that takes an addrconf
\* token from a list sets do_addrconf and nothing else: no address object,
\* no logical interface, no socket.
C15_NdpdOnceAfterAllInterfaces ==
    /\ [](NdpdStarted => /\ pc \in {"normalize", "paused"}
                         /\ (pc = "normalize" =>
                               done[Len(done)] = "lxi_net_setup"))
    /\ [][/\ pc = "ndpd" =>
                /\ do_addrconf = addrconf_seen
                /\ (last'.op = "ndpd") = addrconf_seen
                /\ pc' \in {"normalize", "paused"}
          /\ last'.op = "ndpd" => pc = "ndpd"
          /\ pc' = "ndpd" =>
                /\ pc = "getnwifent"
                /\ last'.op = "endnwifent"
                /\ \A k \in 1..Len(done) : done[k] # "lxi_net_setup"
          /\ last'.op = "addrconf" =>
                /\ do_addrconf'
                /\ addrconf_seen
                /\ last'.opened = 0
                /\ UNCHANGED <<addrnum, aobjnums, lifcnt, fic, v4ok,
                               v4lifs, rtmsgs>>
         ]_vars

C15_Witness ==
    /\ NdpdStarted
    /\ last.ret = 0
    /\ pc = "normalize"
    /\ addrnum = 1

C15_WitnessNotStarted ==
    /\ last.op = "nondpd"
    /\ pc = "normalize"
    /\ addrnum > 1

----------------------------------------------------------------------------
(* Properties of the order of the property-set calls.                      *)

\* C16: every send_buf or recv_buf call for a protocol comes after a
\* max_buf call for the same protocol.
C16_MaxBufBeforeBuffers ==
    \A k \in BufCalls :
        \E j \in 1..(k - 1) :
            /\ propcalls[j].prop = "max_buf"
            /\ propcalls[j].proto = propcalls[k].proto

C16_Witness ==
    /\ Len(propcalls) = 12
    /\ propcalls[10].prop = "max_buf"
    /\ propcalls[10].proto = "MOD_PROTO_RAWIP"
    /\ propcalls[11].proto = "MOD_PROTO_RAWIP"

AllPropCalls ==
    {[proto |-> pr, prop |-> pn] :
        pr \in {"MOD_PROTO_TCP", "MOD_PROTO_UDP", "MOD_PROTO_SCTP",
                "MOD_PROTO_RAWIP"},
        pn \in {"max_buf", "send_buf", "recv_buf"}}

\* C17: however many of the calls made so far failed, the next call is
\* made; a failed call is warned about and raises no lxi_err; and
\* lxi_normalize_protocols returns only when twelve calls, one for each
\* property of each protocol, have been made.
C17_EveryPropertyCallIsMade ==
    /\ [](pc = "set_prop" =>
            /\ fatal = ""
            /\ Len(propcalls) = nprop
            /\ propwarns <= nprop
            /\ (nprop < 12 => ENABLED lxi_normalize_set_prop))
    /\ [](last.op = "set_prop" /\ last.ret # 0 =>
            last.warns = 1 /\ pc = "set_prop")
    /\ [][pc = "set_prop" /\ pc' # "set_prop" =>
            /\ pc' = "static_routes"
            /\ Len(propcalls) = 12
            /\ {[proto |-> propcalls[k].proto, prop |-> propcalls[k].prop] :
                   k \in 1..12} = AllPropCalls
         ]_vars

C17_Witness ==
    /\ pc = "set_prop"
    /\ nprop = 12
    /\ propwarns = 12
    /\ ENABLED lxi_normalize_return

----------------------------------------------------------------------------
(* Properties of the parser of lxi_net_static_route and of what follows it. *)

\* The field a parser with the four states CollectGateway (1),
\* CollectDestination (2), CollectPrefix (3) and CollectFlag (4) is in
\* after the first k characters of l, when "|", "/" and "|" end the first
\* three states.
RECURSIVE FieldAfter(_, _)
FieldAfter(l, k) ==
    IF k = 0 THEN 1
    ELSE LET f == FieldAfter(l, k - 1)
             c == l[k]
         IN  IF \/ f = 1 /\ c = "|"
                \/ f = 2 /\ c = "/"
                \/ f = 3 /\ c = "|"
             THEN f + 1
             ELSE f

\* The branch of the loop body the next character is handled by.
CodeField ==
    IF gw = NULL THEN 1
    ELSE IF dst = NULL THEN 2
    ELSE IF pfx = -1 THEN 3
    ELSE 4

\* C18: after every character the parser is in the state the delimiters
\* seen so far lead to, whatever the prefix text was, and every character
\* after the delimiter that ends the prefix is appended to the flag
\* buffer.
C18_ParserFollowsFourStates ==
    /\ [](pc = "scan" => CodeField = FieldAfter(line, i))
    /\ [][pc = "scan" /\ i' = i + 1 /\ FieldAfter(line, i) = 4 =>
             cu' = Append(cu, line[i + 1])
         ]_vars

\* The same, for the lines with no "-" in them.
C18_ParserFollowsFourStatesUnsigned ==
    /\ [](pc = "scan" /\ ~HasChar(line, "-") =>
             CodeField = FieldAfter(line, i))
    /\ [][/\ pc = "scan" /\ i' = i + 1 /\ FieldAfter(line, i) = 4
           /\ ~HasChar(line, "-")
           => cu' = Append(cu, line[i + 1])
         ]_vars

\* A line whose prefix text is "-1" and that has a fourth field installs
\* with the fourth field as the flag and the third as the prefix.
C18_SentinelPrefixReparsed ==
    /\ pc = "feed"
    /\ last.op = "route"
    /\ last.ret = 0
    /\ last.warns = 0
    /\ HasChar(line, "-")
    /\ pfx = 24
    /\ cu = S_false

\* C19: a line whose flag is not "false" is warned about, and the call of
\* lxi_iface_gateway is made with the parsed gateway, destination and
\* prefix; what the call sends, and whether the line is fatal, is what it
\* would be with the flag "false".
C19_FlagOnlyWarns ==
    RouteCalled =>
        /\ gwcalls = <<[iface |-> NULL, dst |-> dst, pfx |-> pfx,
                        gw |-> gw]>>
        /\ cu # S_false => last.warns >= 1
        /\ \A env \in {last.failed} :
             \E r \in {lxi_iface_gateway(0, dst, pfx, gw, env)} :
                /\ last.ret = r.ret
                /\ last.warns = r.warns + IF cu # S_false THEN 1 ELSE 0
                /\ ~r.crashed => rtmsgs = r.msgs
                /\ r.ret = 0 => pc = "feed" /\ fatal = ""

C19_Witness ==
    /\ RouteCalled
    /\ cu = S_true
    /\ last.ret = 0
    /\ last.warns = 1
    /\ Len(rtmsgs) = 1
    /\ pfx = 24
    /\ pc = "feed"

Stopped == pc \in {"paused", "exited", "killed"}

\* C20: a failed install of a line's route ends the run (lxi_err, or the
\* signal of the NULL gateway); so do a feed command that cannot be
\* launched and one that exits with a non-zero code; a missing feed
\* command is passed over with no warning and no error; and a run that
\* has ended reads no further line and never hands over to init.
C20_RouteFailureIsFatal ==
    /\ [](RouteCalled /\ last.ret # 0 =>
             /\ Stopped
             /\ pc = "paused" => fatal = "failed to add route")
    /\ [](last.op = "static_routes" /\ last.failed = "launch_failed" =>
             pc = "paused" /\ fatal # "")
    /\ [](last.op = "feed_exit" /\ last.ret # 0 =>
             pc = "paused" /\ fatal # "")
    /\ [](last.op = "static_routes" /\ last.failed = "no_routeinfo" =>
             /\ pc = "ipadm_close"
             /\ fatal = ""
             /\ last.warns = 0
             /\ lineno = 0)
    /\ [][Stopped =>
             /\ lineno' = lineno
             /\ line' = line
             /\ gwcalls' = gwcalls
             /\ done' = done
             /\ pc' \in {"paused", "exited", "killed"}
         ]_vars

C20_Witness ==
    /\ pc = "exited"
    /\ fatal = "failed to add route"
    /\ lineno = 1
    /\ lineno < MaxLines
    /\ Len(gwcalls) = 1
    /\ done = SubSeq(CallsBeforeExec, 1, 9)

----------------------------------------------------------------------------
(* Properties of the loop body of lxi_net_setup.                           *)

\* C21: the gateway resolved for an interface is the default router when
\* that is not empty; else the "gateway" attribute when "primary" is
\* "true"; else none.  The default route is installed through exactly the
\* resolved gateway, and with none resolved no route message is sent.
C21_GatewayResolution ==
    /\ [](last.op = "resolve" =>
            LET defrouter == last.tok[1]
                primary == last.tok[2]
                gwattr == last.tok[3]
            IN  /\ pc = "defroute"
                /\ Len(defrouter) > 0 => gateway = defrouter
                /\ Len(defrouter) = 0 /\ primary = S_true =>
                       gateway = gwattr
                /\ Len(defrouter) = 0 /\ primary # S_true =>
                       gateway = NULL)
    /\ [][pc = "defroute" =>
            IF gateway = NULL
            THEN last'.op = "nogateway" /\ rtmsgs' = rtmsgs
            ELSE last'.op = "gateway" /\ last'.tok = gateway
         ]_vars

C21_Witness ==
    /\ last.op = "resolve"
    /\ last.tok = <<S_gwA, S_true, S_gwB>>
    /\ gateway = S_gwA
    /\ ifidx = 2

C21_WitnessAttribute ==
    /\ last.op = "gateway"
    /\ last.tok = S_gwB
    /\ last.ret = 0
    /\ Len(rtmsgs) = 1

C21_WitnessNone ==
    /\ last.op = "resolve"
    /\ last.tok = <<<<>>, S_yes, S_gwB>>
    /\ gateway = NULL

IsLiteral(tok) == tok # S_dhcp /\ tok # S_addrconf

\* C22: each turn of the loop over the address list takes the first token
\* not yet handled and no other, and the loop is left only when none
\* remains, so every token is handled once and in list order.  A literal
\* token makes one call of lxi_iface_ip with that token; "dhcp" changes
\* nothing and warns of nothing; a failed call is warned about, raises no
\* lxi_err, and leaves the loop going.
C22_LiteralPass ==
    /\ [](pc = "tokens" =>
            /\ fatal = ""
            /\ ipaddrs # <<>> => ENABLED lxi_net_setup_token)
    /\ [](last.op = "ip" =>
            /\ IsLiteral(last.tok)
            /\ last.ret < 0 => last.warns >= 1 /\ pc = "tokens")
    /\ [][pc = "tokens" =>
            IF ipaddrs = <<>>
            THEN pc' = "defroute"
            ELSE /\ pc' = "tokens"
                 /\ ipaddrs' = Tail(ipaddrs)
                 /\ last'.tok = Head(ipaddrs)
                 /\ (last'.op = "ip") = IsLiteral(Head(ipaddrs))
                 /\ (last'.op = "skipdhcp") = (Head(ipaddrs) = S_dhcp)
                 /\ last'.op = "skipdhcp" =>
                      /\ last'.warns = 0
                      /\ UNCHANGED <<fic, addrnum, aobjnums, lifcnt,
                                     do_addrconf, v4ok, v4lifs>>
                 /\ last'.op = "ip" /\ last'.af = AF_INET =>
                      v4ok' = v4ok + IF last'.ret = 0 THEN 1 ELSE 0
         ]_vars

C22_Witness ==
    /\ pc = "tokens"
    /\ last.op = "ip"
    /\ last.ret < 0
    /\ last.warns >= 1
    /\ ipaddrs = <<S_dhcp, S_v6>>
    /\ ENABLED lxi_net_setup_token

\* The literal after a failed one is applied: of the two IPv4 literals
\* named on the first interface only the later one is configured.
C22_WitnessNext ==
    /\ ifidx = 1
    /\ last.op = "ip"
    /\ last.af = AF_INET
    /\ last.ret = 0
    /\ v4ok = 1
    /\ lifcnt[AF_INET6] = 0
    /\ Len(aobjnums) = 3

\* C23: an interface is looked at only once it is plumbed; one with no
\* allowed address and no "ips" attribute is warned about; the lack of
\* configuration raises no lxi_err (only the "ipv6" attribute can); and
\* after the link-local step the loop goes to the next interface with no
\* DHCP request, no address object, no route message and no change of
\* do_addrconf.
C23_NoConfigurationSkipsInterface ==
    /\ [](pc = "config" => last.op = "plumb" /\ last.ret = 0)
    /\ [](last.op = "config" /\ no_zonecfg =>
            /\ last.warns = 1
            /\ ipaddrs = <<>>
            /\ pc \in {"linklocal", "paused"}
            /\ pc = "paused" => last.tok \in {S_true, S_yes})
    /\ [](pc = "getnwifent" => ENABLED lxi_net_setup_getnwifent)
    /\ [][pc = "linklocal" /\ no_zonecfg =>
            /\ pc' = "getnwifent"
            /\ last'.op \in {"linklocal", "nolinklocal"}
            /\ UNCHANGED <<fatal, addrnum, aobjnums, rtmsgs, do_addrconf,
                           ifidx, v4ok, v4lifs>>
         ]_vars

C23_Witness ==
    /\ pc = "getnwifent"
    /\ last.op = "linklocal"
    /\ last.ret = 0
    /\ fatal = ""
    /\ ifidx = 1
    /\ ifidx < MaxIfaces
    /\ ENABLED lxi_net_setup_getnwifent

\* C24: after the "ipv6" attribute of an interface is looked at, IPv6 is
\* enabled for the interface only if it is for the zone: with no
\* attribute, or "true", it is as for the zone; with "false" it is
\* disabled; "true" in a zone with IPv6 disabled, and any other value, raise
\* lxi_err.  The link-local address is brought up exactly when IPv6 is
\* enabled for the interface, and a failure of that is warned about and
\* raises no lxi_err.
C24_EffectiveIPv6 ==
    /\ [](pc \in {"config", "linklocal", "dhcp", "tokens", "defroute"} =>
            (ipv6 => ipv6_enable))
    /\ [](last.op = "config" =>
            LET ipv6attr == last.tok
            IN  IF ipv6attr = NULL
                THEN pc = "linklocal" /\ ipv6 = ipv6_enable
                ELSE IF ipv6attr = S_true
                THEN IF ipv6_enable
                     THEN pc = "linklocal" /\ ipv6
                     ELSE pc = "paused" /\ fatal # ""
                ELSE IF ipv6attr = S_false
                THEN pc = "linklocal" /\ ~ipv6
                ELSE pc = "paused" /\ fatal # "")
    /\ [](last.op = "linklocal" /\ last.ret # 0 =>
            /\ last.warns >= 1
            /\ fatal = ""
            /\ pc \in {"getnwifent", "dhcp"})
    /\ [][pc = "linklocal" =>
            /\ (last'.op = "linklocal") = ipv6
            /\ (last'.op = "nolinklocal") = ~ipv6
            /\ fatal' = fatal
         ]_vars

C24_Witness ==
    /\ pc = "paused"
    /\ last.op = "config"
    /\ last.tok = S_true
    /\ ~ipv6_enable
    /\ fatal # ""

C24_WitnessDisabled ==
    /\ pc = "dhcp"
    /\ last.op = "nolinklocal"
    /\ ipv6_enable
    /\ ~ipv6

C24_WitnessWarned ==
    /\ pc = "dhcp"
    /\ last.op = "linklocal"
    /\ last.ret # 0
    /\ last.warns >= 1
    /\ ipv6

----------------------------------------------------------------------------
(* Properties of the sockets of lxi_getif, lxi_iface_ipv6_link_local and   *)
(* lxi_iface_gateway.                                                      *)

\* C25: when a step of the network configuration has returned, every socket
\* it opened has been closed, and no ioctl or write was issued on the
\* descriptor of a socket() that failed.
C25_SocketsClosed ==
    /\ last.opened = last.closed
    /\ ~last.badfd

\* The same, for the steps that open sockets only in lxi_getif and
\* lxi_iface_gateway.
C25_GetifAndGatewayClose ==
    last.op \in {"ip", "dhcp", "gateway", "route"} =>
        /\ last.opened = last.closed
        /\ ~last.badfd

\* lxi_iface_ipv6_link_local has returned with its socket left open.
C25_LinkLocalLeaks ==
    /\ last.op = "linklocal"
    /\ last.ret = -1
    /\ last.opened = 1
    /\ last.closed = 0

\* lxi_iface_ipv6_link_local has issued SIOCGLIFFLAGS on the descriptor -1.
C25_LinkLocalBadDescriptor ==
    /\ last.op = "linklocal"
    /\ last.badfd
    /\ last.opened = 0

====
